---- MODULE Spec2Model ----
(***************************************************************************)
(* Settlement and authorization engine of the VeilX marketplace server:    *)
(* the signed-request authorizer with its nonce store (server/routes.ts),  *)
(* the pool ledger, listing registry and atomic settlement commit          *)
(* (DatabaseStorage), the private-buy, listing and pool routes, and the    *)
(* on-chain listing state of VeilXCollection that the relayer reads and    *)
(* writes.                                                                 *)
(*                                                                         *)
(* Amounts are integers counting units of 0.00000001 ETH, the scale of the *)
(* numeric(18,8) columns. Time is Date.now() in milliseconds.              *)
(***************************************************************************)
EXTENDS Integers, Sequences, FiniteSets, Bags, TLC

VARIABLES
    now,              \* Date.now(), milliseconds
    usedNonces,       \* routes.ts:46  Map<signerLower, Set<nonce>>
    nonceTimestamps,  \* routes.ts:49  Map<"signer:nonce", ms>
    lastAuth,         \* observation: the latest verifySignedRequest call and its result
    authorized,       \* observation: the (signerLower, nonce) pairs authorized so far
    poolBalances,     \* table pool_balances, keyed by accountHash
    poolTransactions, \* table pool_transactions, a bag of rows
    listings,         \* table listings; the row id is the index
    trades,           \* table trades, a bag of rows
    nftOwner,         \* nfts.encrypted_owner per nft id
    mintedCount,      \* collections.minted_count of the one collection
    nftRows,          \* number of nfts rows inserted by pool mints
    collectionNfts,   \* bag of the nfts rows of the collection: tokenId, minting call
    rowLock,          \* FOR UPDATE row locks: row -> holding request, or NoProc
    isListed,         \* VeilXCollection.isListed[tokenId]
    listingPrices,    \* VeilXCollection.listingPrices[tokenId]
    relayerOwns,      \* VeilXCollection.owners[tokenId] = relayer wallet
    chainTxs,         \* number of relayer transactions mined (source of txHash)
    deductedForMint,  \* observation: PrivacyPool.deductForMint total per accountHash
    mintedValue,      \* observation: total price of the nfts the relayer minted per accountHash
    veilxCollection,  \* storage and ETH balance of a VeilXCollection called by wallets directly
    pc,               \* per request slot: position inside its route handler
    req,              \* per request slot: the handler's local variables
    opsStarted        \* number of route invocations so far

vars == <<now, usedNonces, nonceTimestamps, lastAuth, authorized, poolBalances,
          poolTransactions, listings, trades, nftOwner, mintedCount, nftRows, collectionNfts,
          rowLock, isListed, listingPrices, relayerOwns, chainTxs,
          deductedForMint, mintedValue, veilxCollection, pc, req, opsStarted>>

authVars  == <<usedNonces, nonceTimestamps, lastAuth, authorized>>
dbVars    == <<poolBalances, poolTransactions, listings, trades, nftOwner,
               mintedCount, nftRows, collectionNfts>>
mintVars  == <<deductedForMint, mintedValue>>
chainVars == <<isListed, listingPrices, relayerOwns, chainTxs, mintVars,
               veilxCollection>>

----------------------------------------------------------------------------
(* Bounds of the model *)

MaxOps == 3          \* route invocations explored per behaviour
MaxListings == 3     \* listings rows explored

(* Program constants *)

NONCE_EXPIRY_MS == 300000     \* 5 * 60 * 1000
TotalSupply == 2              \* collections.total_supply of the modelled collection
TokenIds == 1 .. TotalSupply   \* token ids VeilXCollection.mint hands out

(* Input domains *)

Signers     == {"0xAB", "0xab", "0xcd"}   \* signer strings as sent by clients
Accounts    == {"H1", "H2"}               \* account hashes that requests name
Nonces      == {1, 2}
Expiries    == {0, 1, 1300}               \* expiresAt, seconds
ClockValues == {1500, 2000, 600500}       \* later readings of Date.now()
Amounts     == {-1, 1}                    \* request amounts, units of 1e-8 ETH
Prices      == {1, 2}
Nfts        == {"n1"}
Procs       == {"r1", "r2"}

NoRow  == [absent |-> TRUE]    \* no row for the key
NoProc == "NoProc"

----------------------------------------------------------------------------
(* RequestAuthorizer and NonceStore                                        *)

\* String.prototype.toLowerCase on the signer strings of the model
ToLowerCase(s) == IF s = "0xAB" THEN "0xab" ELSE s

SignersLower == {ToLowerCase(s) : s \in Signers}

\* ethers.keccak256(ethers.toUtf8Bytes(x)): injective on the modelled strings
Keccak256(x) ==
    CASE x = "0xab" -> "H1"
      [] x = "0xcd" -> "H2"
      [] OTHER      -> "H?"

\* A signed request. `signedBy` stands for the signature: the (lower-case)
\* address whose key produced it over exactly this data; "0x??" is a
\* signature that recovers to no modelled signer.
SignedRequests ==
    [signer : Signers, nonce : Nonces, expiresAt : Expiries,
     signedBy : SignersLower \cup {"0x??"}]

\* Math.floor(Date.now() / 1000) > expiresAt            (shared/signing)
isSignatureExpired(expiresAt, t) == (t \div 1000) > expiresAt

\* ethers.verifyTypedData(domain, types, data, signature)
RecoveredAddress(r) == r.signedBy

\* verifySignature(signedRequest, expectedSigner)       (shared/signing)
verifySignature(r, expectedSigner, t) ==
    IF ToLowerCase(r.signer) # ToLowerCase(expectedSigner) THEN FALSE
    ELSE IF isSignatureExpired(r.expiresAt, t) THEN FALSE
    ELSE ToLowerCase(RecoveredAddress(r)) = ToLowerCase(r.signer)

\* `expiresAt && Date.now() / 1000 > expiresAt` : the quotient is not floored
RequestExpired(expiresAt, t) == expiresAt # 0 /\ t > expiresAt * 1000

\* usedNonces.get(signer)?.has(nonce)
NonceUsed(store, signerLower, nonce) ==
    signerLower \in DOMAIN store /\ nonce \in store[signerLower]

\* Map.set / Set.add on the two maps
MapSet(m, k, v) == [x \in (DOMAIN m) \cup {k} |-> IF x = k THEN v ELSE m[x]]
MapDelete(m, k) == [x \in (DOMAIN m) \ {k} |-> m[x]]

\* verifySignedRequest with the nonce recorded as soon as the signature has
\* been verified, before the expiry and replay checks
verifySignedRequestEager(r, expectedAccountHash, t, store, stamps) ==
    LET signerLower == ToLowerCase(r.signer)
        computedHash == Keccak256(signerLower)
        fail(e) == [valid |-> FALSE, error |-> e, store |-> store, stamps |-> stamps]
    IN  IF computedHash # expectedAccountHash THEN fail("AccountMismatch")
        ELSE IF ~verifySignature(r, r.signer, t) THEN fail("InvalidSignature")
        ELSE LET store1 == IF signerLower \in DOMAIN store THEN store
                           ELSE MapSet(store, signerLower, {})
                 store2 == MapSet(store1, signerLower,
                                  store1[signerLower] \cup {r.nonce})
                 stamps2 == MapSet(stamps, <<signerLower, r.nonce>>, t)
             IN  IF RequestExpired(r.expiresAt, t)
                 THEN [valid |-> FALSE, error |-> "Expired",
                       store |-> store2, stamps |-> stamps2]
                 ELSE IF r.nonce \in store1[signerLower]
                 THEN [valid |-> FALSE, error |-> "ReplayDetected",
                       store |-> store1, stamps |-> stamps]
                 ELSE [valid |-> TRUE, error |-> "none",
                       store |-> store2, stamps |-> stamps2]

\* verifySignedRequest with the nonce set looked up under the signer string as
\* sent, not under its lower-case form
verifySignedRequestRawKey(r, expectedAccountHash, t, store, stamps) ==
    LET signerLower == ToLowerCase(r.signer)
        computedHash == Keccak256(signerLower)
        fail(e) == [valid |-> FALSE, error |-> e, store |-> store, stamps |-> stamps]
    IN  IF computedHash # expectedAccountHash THEN fail("AccountMismatch")
        ELSE IF ~verifySignature(r, r.signer, t) THEN fail("InvalidSignature")
        ELSE IF RequestExpired(r.expiresAt, t) THEN fail("Expired")
        ELSE LET store1 == IF r.signer \in DOMAIN store THEN store
                           ELSE MapSet(store, r.signer, {})
             IN  IF r.nonce \in store1[r.signer]
                 THEN [valid |-> FALSE, error |-> "ReplayDetected",
                       store |-> store1, stamps |-> stamps]
                 ELSE [valid |-> TRUE, error |-> "none",
                       store |-> MapSet(store1, r.signer,
                                        store1[r.signer] \cup {r.nonce}),
                       stamps |-> MapSet(stamps, <<r.signer, r.nonce>>, t)]

\* verifySignedRequest with the signature verified first and the account
\* hash compared after it
verifySignedRequestSignatureFirst(r, expectedAccountHash, t, store, stamps) ==
    LET signerLower == ToLowerCase(r.signer)
        computedHash == Keccak256(signerLower)
        fail(e) == [valid |-> FALSE, error |-> e, store |-> store, stamps |-> stamps]
    IN  IF ~verifySignature(r, r.signer, t) THEN fail("InvalidSignature")
        ELSE IF computedHash # expectedAccountHash THEN fail("AccountMismatch")
        ELSE IF RequestExpired(r.expiresAt, t) THEN fail("Expired")
        ELSE LET store1 == IF signerLower \in DOMAIN store THEN store
                           ELSE MapSet(store, signerLower, {})
             IN  IF r.nonce \in store1[signerLower]
                 THEN [valid |-> FALSE, error |-> "ReplayDetected",
                       store |-> store1, stamps |-> stamps]
                 ELSE [valid |-> TRUE, error |-> "none",
                       store |-> MapSet(store1, signerLower,
                                        store1[signerLower] \cup {r.nonce}),
                       stamps |-> MapSet(stamps, <<signerLower, r.nonce>>, t)]

\* verifySignedRequest(signedRequest, expectedAccountHash): the result and the
\* two maps as the call leaves them.
verifySignedRequest(r, expectedAccountHash, t, store, stamps) ==
    LET signerLower == ToLowerCase(r.signer)
        computedHash == Keccak256(signerLower)
        fail(e) == [valid |-> FALSE, error |-> e, store |-> store, stamps |-> stamps]
    IN  IF computedHash # expectedAccountHash THEN fail("AccountMismatch")
        ELSE IF ~verifySignature(r, r.signer, t) THEN fail("InvalidSignature")
        ELSE IF RequestExpired(r.expiresAt, t) THEN fail("Expired")
        ELSE LET store1 == IF signerLower \in DOMAIN store THEN store
                           ELSE MapSet(store, signerLower, {})
             IN  IF r.nonce \in store1[signerLower]
                 THEN [valid |-> FALSE, error |-> "ReplayDetected",
                       store |-> store1, stamps |-> stamps]
                 ELSE [valid |-> TRUE, error |-> "none",
                       store |-> MapSet(store1, signerLower,
                                        store1[signerLower] \cup {r.nonce}),
                       stamps |-> MapSet(stamps, <<signerLower, r.nonce>>, t)]

\* One verifySignedRequest call, with what an observer of the call records:
\* its result; whether account hash and signature were those of the signer
\* (wellFormed); whether a set expiresAt was already past (expired); whether the
\* (signer, nonce) pair had been authorized before (replay).
Authorize(r, expectedAccountHash) ==
    LET out == verifySignedRequest(r, expectedAccountHash, now, usedNonces,
                                   nonceTimestamps)
        key == <<ToLowerCase(r.signer), r.nonce>>
    IN  /\ usedNonces' = out.store
        /\ nonceTimestamps' = out.stamps
        /\ lastAuth' = [seq |-> 1 - lastAuth.seq,
                        result |-> IF out.valid THEN "ok" ELSE out.error,
                        wellFormed |-> /\ Keccak256(key[1]) = expectedAccountHash
                                       /\ r.signedBy = key[1],
                        expired |-> RequestExpired(r.expiresAt, now),
                        replay |-> key \in authorized]
        /\ authorized' = IF out.valid THEN authorized \cup {key} ELSE authorized

\* verifySignedRequest as the first step of a route handler: the handler goes
\* on only when the call returned valid.
RouteRequest(signer) ==
    [signer |-> signer, nonce |-> 10 + opsStarted, expiresAt |-> 1300,
     signedBy |-> ToLowerCase(signer)]

RouteAuthValid(signer, accountHash) ==
    verifySignedRequest(RouteRequest(signer), accountHash, now, usedNonces,
                        nonceTimestamps).valid

RouteAuthorize(signer, accountHash) ==
    LET out == verifySignedRequest(RouteRequest(signer), accountHash, now,
                                   usedNonces, nonceTimestamps)
    IN  /\ usedNonces' = out.store
        /\ nonceTimestamps' = out.stamps
        /\ UNCHANGED <<lastAuth, authorized>>

\* A route that only authorizes (the request fails a later validation step)
AuthorizeCall ==
    \E r \in SignedRequests, h \in Accounts :
        /\ Authorize(r, h)
        /\ UNCHANGED <<now, dbVars, rowLock, chainVars, pc, req, opsStarted>>

\* The wall clock advances
Tick ==
    \E t \in ClockValues :
        /\ t > now
        /\ now' = t
        /\ UNCHANGED <<authVars, dbVars, rowLock, chainVars, pc, req, opsStarted>>

\* A sweep that drops a record one expiry window after its consumption
ExpiredNonceKeysOneWindow(stamps, t) ==
    {k \in DOMAIN stamps : t - stamps[k] > NONCE_EXPIRY_MS}

\* The setInterval callback of routes.ts:55-76
ExpiredNonceKeys(stamps, t) ==
    {k \in DOMAIN stamps : t - stamps[k] > NONCE_EXPIRY_MS * 2}

SweepStore(store, expired) ==
    LET pruned == [s \in DOMAIN store |->
                      store[s] \ {k[2] : k \in {e \in expired : e[1] = s}}]
        touched == {k[1] : k \in expired}
    IN  [s \in {x \in DOMAIN pruned : ~(x \in touched /\ pruned[x] = {})}
            |-> pruned[s]]

SweepStamps(stamps, expired) == [k \in (DOMAIN stamps) \ expired |-> stamps[k]]

NonceCleanup ==
    LET expired == ExpiredNonceKeys(nonceTimestamps, now)
    IN  /\ expired # {}
        /\ nonceTimestamps' = SweepStamps(nonceTimestamps, expired)
        /\ usedNonces' = SweepStore(usedNonces, expired)
        /\ UNCHANGED <<now, lastAuth, authorized, dbVars, rowLock, chainVars, pc,
                       req, opsStarted>>

----------------------------------------------------------------------------
(* The arithmetic of the pool ledger on decimal strings: parseFloat, the   *)
(* sum, difference and comparison of two Numbers, toFixed(8)               *)

\* A numeric(18,8) value is written as the integer count of its 1e-8 units,
\* and an integer too wide for one machine word as the sequence of its
\* base-10000 digits, lowest first, without leading zero digits:
\* "39997893.58518364" is <<8364, 5851, 7893, 3999>> and "0.00000000" is <<>>.
Base == 10000

RECURSIVE BigTrim(_)
BigTrim(a) ==
    IF a # <<>> /\ a[Len(a)] = 0 THEN BigTrim(SubSeq(a, 1, Len(a) - 1)) ELSE a

BigDigit(a, i) == IF i >= 1 /\ i <= Len(a) THEN a[i] ELSE 0

RECURSIVE BigAddCarry(_, _, _)
BigAddCarry(a, b, c) ==
    IF a = <<>> /\ b = <<>> THEN (IF c = 0 THEN <<>> ELSE <<c>>)
    ELSE LET x == BigDigit(a, 1) + BigDigit(b, 1) + c
         IN  <<x % Base>> \o BigAddCarry(IF a = <<>> THEN a ELSE Tail(a),
                                         IF b = <<>> THEN b ELSE Tail(b),
                                         x \div Base)

BigAdd(a, b) == BigAddCarry(a, b, 0)

\* a - b for a >= b
RECURSIVE BigSubBorrow(_, _, _)
BigSubBorrow(a, b, c) ==
    IF a = <<>> THEN <<>>
    ELSE LET x == Head(a) - BigDigit(b, 1) - c
         IN  <<IF x < 0 THEN x + Base ELSE x>>
                 \o BigSubBorrow(Tail(a), IF b = <<>> THEN b ELSE Tail(b),
                                 IF x < 0 THEN 1 ELSE 0)

BigSub(a, b) == BigTrim(BigSubBorrow(a, b, 0))

\* a * k for 0 <= k <= Base
RECURSIVE BigMulCarry(_, _, _)
BigMulCarry(a, k, c) ==
    IF a = <<>> THEN (IF c = 0 THEN <<>> ELSE <<c>>)
    ELSE LET x == Head(a) * k + c
         IN  <<x % Base>> \o BigMulCarry(Tail(a), k, x \div Base)

BigMulSmall(a, k) == BigTrim(BigMulCarry(a, k, 0))

\* floor(a / k) and a mod k for 0 < k <= Base, from the highest digit down
RECURSIVE BigDivFrom(_, _, _)
BigDivFrom(a, k, rem) ==
    IF a = <<>> THEN [quot |-> <<>>, rem |-> rem]
    ELSE LET cur == rem * Base + a[Len(a)]
             rest == BigDivFrom(SubSeq(a, 1, Len(a) - 1), k, cur % k)
         IN  [quot |-> rest.quot \o <<cur \div k>>, rem |-> rest.rem]

BigDivSmall(a, k) == BigTrim(BigDivFrom(a, k, 0).quot)
BigModSmall(a, k) == BigDivFrom(a, k, 0).rem

BigLess(a, b) ==
    IF Len(a) # Len(b) THEN Len(a) < Len(b)
    ELSE \E i \in 1..Len(a) :
            /\ a[i] < b[i]
            /\ \A j \in (i + 1)..Len(a) : a[j] = b[j]

\* Shifts go by at most ChunkBits bits at a time: 2^ChunkBits <= Base
ChunkBits == 13

\* a * 2^n
RECURSIVE BigShiftLeft(_, _)
BigShiftLeft(a, n) ==
    IF n > ChunkBits THEN BigShiftLeft(BigMulSmall(a, 2^ChunkBits), n - ChunkBits)
    ELSE BigMulSmall(a, 2^n)

\* floor(a / 2^n)
RECURSIVE BigShiftRight(_, _)
BigShiftRight(a, n) ==
    IF n > ChunkBits THEN BigShiftRight(BigDivSmall(a, 2^ChunkBits), n - ChunkBits)
    ELSE BigDivSmall(a, 2^n)

BigPow2(n) == BigShiftLeft(<<1>>, n)

BigOdd(a) == BigModSmall(a, 2) = 1

\* a * 10^8 and floor(a / 10^8): two base-10000 digits
BigTimes1e8(a) == IF a = <<>> THEN a ELSE <<0, 0>> \o a
BigDiv1e8(a) == IF Len(a) <= 2 THEN <<>> ELSE SubSeq(a, 3, Len(a))
BigMod1e8IsZero(a) == BigDigit(a, 1) = 0 /\ BigDigit(a, 2) = 0

\* The magnitude of an IEEE 754 binary64 Number that is zero or normal: the
\* value m * 2^q with 2^52 <= m < 2^53, or m = <<>> for 0
SignificandBits == 53

Float(m, q) == [m |-> m, q |-> q]

FloatZero == Float(<<>>, 0)

\* The bounds of a significand, and the bound below which bits are shifted
\* out one at a time
SignificandMin   == BigPow2(SignificandBits - 1)
SignificandLimit == BigPow2(SignificandBits)
ChunkLimit       == BigPow2(SignificandBits + ChunkBits)

\* Round n * 2^q (n >= 2^52; `r` the bit shifted out last, `st` whether a
\* non-zero bit was shifted out before it) to the nearest Number, ties to
\* even
RECURSIVE RoundToFloat(_, _, _, _)
RoundToFloat(n, q, r, st) ==
    IF ~BigLess(n, ChunkLimit)
    THEN LET low == BigModSmall(n, 2^ChunkBits)
         IN  RoundToFloat(BigDivSmall(n, 2^ChunkBits), q + ChunkBits,
                          low >= 2^(ChunkBits - 1),
                          st \/ r \/ low % 2^(ChunkBits - 1) # 0)
    ELSE IF ~BigLess(n, SignificandLimit)
    THEN RoundToFloat(BigDivSmall(n, 2), q + 1, BigOdd(n), st \/ r)
    ELSE IF r /\ (st \/ BigOdd(n))
         THEN LET up == BigAdd(n, <<1>>)
              IN  IF up = SignificandLimit
                  THEN Float(SignificandMin, q + 1)
                  ELSE Float(up, q)
         ELSE Float(n, q)

\* Bits by which parseFloat scales a count of units before dividing by 10^8:
\* the quotient of one unit then has more bits than a significand
ScaleBits == 84

\* parseFloat of the decimal string of `units` >= 0: the Number nearest to
\* units / 10^8
ParseFloat(units) ==
    IF units = <<>> THEN FloatZero
    ELSE LET n == BigShiftLeft(units, ScaleBits)
         IN  RoundToFloat(BigDiv1e8(n), 0 - ScaleBits, FALSE, ~BigMod1e8IsZero(n))

\* x + y on magnitudes: the exact sum, rounded once
FloatAdd(x, y) ==
    IF x.m = <<>> THEN y
    ELSE IF y.m = <<>> THEN x
    ELSE LET q == IF x.q < y.q THEN x.q ELSE y.q
             sum == BigAdd(BigShiftLeft(x.m, x.q - q), BigShiftLeft(y.m, y.q - q))
         IN  RoundToFloat(sum, q, FALSE, FALSE)

\* x < y on magnitudes: of two normal Numbers the one with the lower exponent
\* is the lower
FloatLess(x, y) ==
    IF y.m = <<>> THEN FALSE
    ELSE IF x.m = <<>> THEN TRUE
    ELSE IF x.q # y.q THEN x.q < y.q
    ELSE BigLess(x.m, y.m)

\* n * 2^q for n > 0 as a Number: a short n is shifted up, a long one rounded
RECURSIVE FloatOf(_, _)
FloatOf(n, q) ==
    IF BigLess(n, SignificandMin) THEN FloatOf(BigMulSmall(n, 2), q - 1)
    ELSE RoundToFloat(n, q, FALSE, FALSE)

\* x - y on magnitudes with x >= y: the exact difference, rounded once
FloatSub(x, y) ==
    IF y.m = <<>> THEN x
    ELSE LET q == IF x.q < y.q THEN x.q ELSE y.q
             diff == BigSub(BigShiftLeft(x.m, x.q - q), BigShiftLeft(y.m, y.q - q))
         IN  IF diff = <<>> THEN FloatZero ELSE FloatOf(diff, q)

\* Number.prototype.toFixed(8) of a magnitude, as the count of 1e-8 units of
\* the string it returns: the integer n with n / 10^8 nearest to x, the
\* larger one of two equally near
ToFixed8(x) ==
    IF x.m = <<>> THEN <<>>
    ELSE IF x.q >= 0 THEN BigShiftLeft(BigTimes1e8(x.m), x.q)
    ELSE BigDivSmall(BigAdd(BigShiftRight(BigTimes1e8(x.m), (0 - x.q) - 1), <<1>>), 2)

\* A decimal string with a sign is the digit sequence of its count of units
\* with the sign on every digit: "-0.00010001" is <<-1, -1>>.
RECURSIVE DecimalNegate(_)
DecimalNegate(s) ==
    IF s = <<>> THEN <<>> ELSE <<0 - Head(s)>> \o DecimalNegate(Tail(s))

DecimalNegative(s) == s # <<>> /\ s[Len(s)] < 0

DecimalAbs(s) == IF DecimalNegative(s) THEN DecimalNegate(s) ELSE s

\* The decimal string of a count of units that fits a machine word, and the
\* count a decimal string denotes
RECURSIVE DecimalOf(_)
DecimalOf(n) ==
    IF n = 0 THEN <<>>
    ELSE IF n < 0 THEN DecimalNegate(DecimalOf(0 - n))
    ELSE <<n % Base>> \o DecimalOf(n \div Base)

RECURSIVE CountOf(_)
CountOf(s) == IF s = <<>> THEN 0 ELSE Head(s) + Base * CountOf(Tail(s))

\* A Number: a sign and a magnitude
Number(neg, abs) == [neg |-> neg, abs |-> abs]

NumberZero == Number(FALSE, FloatZero)

\* parseFloat(s) of a decimal string
NumberOf(s) == Number(DecimalNegative(s), ParseFloat(DecimalAbs(s)))

\* x < 0
NumberNegative(x) == x.neg /\ x.abs.m # <<>>

\* x + y
NumberAdd(x, y) ==
    IF x.neg = y.neg THEN Number(x.neg, FloatAdd(x.abs, y.abs))
    ELSE IF FloatLess(x.abs, y.abs) THEN Number(y.neg, FloatSub(y.abs, x.abs))
    ELSE IF FloatLess(y.abs, x.abs) THEN Number(x.neg, FloatSub(x.abs, y.abs))
    ELSE NumberZero

\* x - y
NumberSub(x, y) == NumberAdd(x, Number(~y.neg, y.abs))

\* x < y
NumberLess(x, y) ==
    IF NumberNegative(x)
    THEN ~NumberNegative(y) \/ FloatLess(y.abs, x.abs)
    ELSE ~NumberNegative(y) /\ FloatLess(x.abs, y.abs)

\* x.toFixed(8) as the decimal string the numeric(18,8) column then holds:
\* "-0.00000000" is stored as 0
NumberFixed8(x) ==
    IF x.neg THEN DecimalNegate(ToFixed8(x.abs)) ELSE ToFixed8(x.abs)

\* On two decimal strings: (parseFloat(a) + parseFloat(b)).toFixed(8),
\* (parseFloat(a) - parseFloat(b)).toFixed(8), parseFloat(a) - parseFloat(b) < 0
\* and parseFloat(a) < parseFloat(b); on one, parseFloat(a).toFixed(8)
SumFixed8(a, b)      == NumberFixed8(NumberAdd(NumberOf(a), NumberOf(b)))
DiffFixed8(a, b)     == NumberFixed8(NumberSub(NumberOf(a), NumberOf(b)))
DiffIsNegative(a, b) == NumberLess(NumberSub(NumberOf(a), NumberOf(b)), NumberZero)
ParsedLess(a, b)     == NumberLess(NumberOf(a), NumberOf(b))
ParsedFixed8(a)      == NumberFixed8(NumberOf(a))

\* The counts whose results are computed once and then looked up
CachedCounts == (0 - 12) .. 12

Cached(s) == s = <<>> \/ (Len(s) = 1 /\ s[1] \in CachedCounts)

SumTable ==
    [a \in CachedCounts, b \in CachedCounts |-> SumFixed8(DecimalOf(a), DecimalOf(b))]
DiffTable ==
    [a \in CachedCounts, b \in CachedCounts |-> DiffFixed8(DecimalOf(a), DecimalOf(b))]
NegativeTable ==
    [a \in CachedCounts, b \in CachedCounts |->
        DiffIsNegative(DecimalOf(a), DecimalOf(b))]
LessTable ==
    [a \in CachedCounts, b \in CachedCounts |-> ParsedLess(DecimalOf(a), DecimalOf(b))]
FixedTable == [a \in CachedCounts |-> ParsedFixed8(DecimalOf(a))]

\* (parseFloat(a) + parseFloat(b)).toFixed(8)
DecimalAdd(a, b) ==
    IF Cached(a) /\ Cached(b) THEN SumTable[CountOf(a), CountOf(b)]
    ELSE SumFixed8(a, b)

\* (parseFloat(a) - parseFloat(b)).toFixed(8)
DecimalSub(a, b) ==
    IF Cached(a) /\ Cached(b) THEN DiffTable[CountOf(a), CountOf(b)]
    ELSE DiffFixed8(a, b)

\* parseFloat(a) - parseFloat(b) < 0
DecimalSubNegative(a, b) ==
    IF Cached(a) /\ Cached(b) THEN NegativeTable[CountOf(a), CountOf(b)]
    ELSE DiffIsNegative(a, b)

\* parseFloat(a) < parseFloat(b)
DecimalLess(a, b) ==
    IF Cached(a) /\ Cached(b) THEN LessTable[CountOf(a), CountOf(b)]
    ELSE ParsedLess(a, b)

\* parseFloat(a).toFixed(8)
DecimalFixed8(a) == IF Cached(a) THEN FixedTable[CountOf(a)] ELSE ParsedFixed8(a)

----------------------------------------------------------------------------
(* PoolLedger: DatabaseStorage.createOrUpdatePoolBalance                   *)

\* createOrUpdatePoolBalance works on the decimal strings of the numeric(18,8)
\* columns and of its amount argument. Where the state holds a balance or an
\* amount as an integer, that is the count of 1e-8 units the string denotes:
\* DecimalOf gives the string of a count and CountOf the count of a string.

PoolRow(b, d, s) == [balance |-> b, totalDeposited |-> d, totalSpent |-> s]

\* A row of counts as the row of decimal strings it stands for, and back
DecimalRow(row) ==
    PoolRow(DecimalOf(row.balance), DecimalOf(row.totalDeposited),
            DecimalOf(row.totalSpent))

CountRow(row) ==
    IF row = NoRow THEN row
    ELSE PoolRow(CountOf(row.balance), CountOf(row.totalDeposited),
                 CountOf(row.totalSpent))

\* On strings held as counts: parseFloat(a) < parseFloat(b), and the count of
\* (parseFloat(a) + parseFloat(b)).toFixed(8) and of the difference
CountLess(a, b) == DecimalLess(DecimalOf(a), DecimalOf(b))
CountAdd(a, b) == CountOf(DecimalAdd(DecimalOf(a), DecimalOf(b)))
CountSub(a, b) == CountOf(DecimalSub(DecimalOf(a), DecimalOf(b)))

IsCredit(type) == type \in {"deposit", "nft_sale"}

\* The `if (existing)` branch, part_003:607-642: the outcome and the row
\* written, on decimal strings. The Numbers currentBalance, currentDeposited,
\* currentSpent and amountNum are the parseFloat of the four strings.
UpdateExisting(existing, amount, type) ==
    LET sumBalance   == DecimalAdd(existing.balance, amount)
        diffBalance  == DecimalSub(existing.balance, amount)
        newDeposited == IF type = "deposit"
                        THEN DecimalAdd(existing.totalDeposited, amount)
                        ELSE DecimalFixed8(existing.totalDeposited)
        newSpent     == IF IsCredit(type) \/ type = "withdraw"
                        THEN DecimalFixed8(existing.totalSpent)
                        ELSE DecimalAdd(existing.totalSpent, amount)
    IN  IF IsCredit(type)
        THEN [ok |-> TRUE, error |-> "none",
              row |-> PoolRow(sumBalance, newDeposited, newSpent)]
        ELSE IF type = "withdraw"
        THEN IF DecimalSubNegative(existing.balance, amount)
             THEN [ok |-> FALSE, error |-> "InsufficientBalance", row |-> existing]
             ELSE [ok |-> TRUE, error |-> "none",
                   row |-> PoolRow(diffBalance, newDeposited, newSpent)]
        ELSE IF DecimalSubNegative(existing.balance, amount)
             THEN [ok |-> FALSE, error |-> "InsufficientBalance", row |-> existing]
             ELSE [ok |-> TRUE, error |-> "none",
                   row |-> PoolRow(diffBalance, newDeposited, newSpent)]

\* The `else` branch without its check of the type: any call on an absent
\* account inserts the row
InsertNewAnyType(amount, type) ==
    [ok |-> TRUE, error |-> "none",
     row |-> PoolRow(amount, IF type = "deposit" THEN amount ELSE <<>>, <<>>)]

\* The `else` branch, part_003:643-657: the row inserted for a new account,
\* with the amount as sent and '0' for the other columns
InsertNew(amount, type) ==
    IF ~IsCredit(type)
    THEN [ok |-> FALSE, error |-> "AccountNotFound", row |-> NoRow]
    ELSE [ok |-> TRUE, error |-> "none",
          row |-> PoolRow(amount, IF type = "deposit" THEN amount ELSE <<>>, <<>>)]

\* A pool_transactions row (recordPoolTransaction, part_003:661-670)
PoolTx(accountHash, type, amount, txHash, nftId) ==
    [accountHash |-> accountHash, type |-> type, amount |-> amount,
     txHash |-> txHash, nftId |-> nftId]

BagAdd(b, x) == b (+) SetToBag({x})

----------------------------------------------------------------------------
(* Request slots                                                           *)

ReqIdle ==
    [route |-> "none", type |-> "none", account |-> "none", amount |-> 0,
     nft |-> "none", listingId |-> 0, seller |-> "none", price |-> 0,
     encryptedBuyer |-> "none", owner |-> "none", txHash |-> 0,
     existing |-> NoRow, sellerExisting |-> NoRow, result |-> "none",
     signedNft |-> "none", signedPrice |-> 0, isActive |-> TRUE, tokenId |-> 0]

\* The handler of slot p has sent its response
Respond(p, route, result, listingId) ==
    /\ pc' = [pc EXCEPT ![p] = "idle"]
    /\ req' = [req EXCEPT ![p] = [ReqIdle EXCEPT !.route = route,
                                                  !.result = result,
                                                  !.listingId = listingId]]

CanStart(p) == pc[p] = "idle" /\ opsStarted < MaxOps

\* A storage call the handler of slot p awaits is rejected (connection or
\* database error): the call throws, the catch block of the route answers
\* 500, and the handler has nothing more to write.
Rejected(p, route) == Respond(p, route, "DatabaseError", req[p].listingId)

LockFree(row, p) == rowLock[row] \in {NoProc, p}

ReleaseLocks(p) == [r \in DOMAIN rowLock |-> IF rowLock[r] = p THEN NoProc ELSE rowLock[r]]

\* createOrUpdatePoolBalance, first statement: SELECT ... FOR UPDATE
\* (part_003:601-605), run for the handler state r. An existing row is
\* locked, waiting while another transaction holds it; an absent row locks
\* nothing.
CoupSelectInto(p, r) ==
    /\ IF poolBalances[r.account] # NoRow
       THEN /\ rowLock[r.account] = NoProc
            /\ rowLock' = [rowLock EXCEPT ![r.account] = p]
            /\ req' = [req EXCEPT ![p] = [r EXCEPT !.existing = poolBalances[r.account]]]
       ELSE /\ rowLock' = rowLock
            /\ req' = [req EXCEPT ![p] = [r EXCEPT !.existing = NoRow]]
    /\ pc' = [pc EXCEPT ![p] = "coupApply"]

CoupSelect(p) ==
    /\ pc[p] = "coupSelect"
    /\ CoupSelectInto(p, req[p])
    /\ UNCHANGED <<now, authVars, dbVars, chainVars, opsStarted>>

\* createOrUpdatePoolBalance, the rest of the transaction and its commit or
\* rollback (part_003:607-658). The insert of a row whose accountHash exists
\* by now violates the unique constraint of pool_balances.account_hash.
CoupOutcomeOn(existing, amount, type, present) ==
    IF existing # NoRow THEN UpdateExisting(existing, amount, type)
    ELSE IF InsertNew(amount, type).ok /\ present
    THEN [ok |-> FALSE, error |-> "UniqueViolation", row |-> NoRow]
    ELSE InsertNew(amount, type)

\* The outcome for the handler of slot p, whose row and amount are counts
CoupOutcome(p) ==
    LET r == req[p]
        out == CoupOutcomeOn(IF r.existing # NoRow THEN DecimalRow(r.existing)
                             ELSE NoRow,
                             DecimalOf(r.amount), r.type,
                             poolBalances[r.account] # NoRow)
    IN  [out EXCEPT !.row = CountRow(out.row)]

\* The commit of outcome `out`, or the rollback and the error thrown
CoupCommit(p, out) ==
    /\ rowLock' = ReleaseLocks(p)
    /\ IF out.ok
       THEN /\ poolBalances' = [poolBalances EXCEPT ![req[p].account] = out.row]
            /\ pc' = [pc EXCEPT ![p] = "afterCoup"]
            /\ req' = req
       ELSE /\ poolBalances' = poolBalances
            /\ Respond(p, req[p].route, out.error, 0)
    /\ UNCHANGED <<now, authVars, poolTransactions, listings, trades, nftOwner,
                   mintedCount, nftRows, collectionNfts, chainVars, opsStarted>>

CoupApply(p) ==
    /\ pc[p] = "coupApply"
    /\ CoupCommit(p, CoupOutcome(p))

\* A statement of createOrUpdatePoolBalance is rejected (connection or
\* database error): drizzle rolls the transaction back, the call throws and
\* the catch block of the route answers 500 (routes.ts:1790-1797, 1852-1859,
\* 1950-1957) with what the relayer did before on the chain in place.
CoupFail(p) ==
    /\ pc[p] \in {"coupSelect", "coupApply"}
    /\ rowLock' = ReleaseLocks(p)
    /\ Rejected(p, req[p].route)
    /\ UNCHANGED <<now, authVars, dbVars, chainVars, opsStarted>>

----------------------------------------------------------------------------
(* Pool routes of server/routes.ts                                         *)

\* ethers.parseEther(amount) passed as a uint256 argument or as the value of
\* a transaction: a negative amount is rejected before anything is sent.
ChainAmountOk(amount) == amount >= 0

\* POST /api/pool/deposit, up to the first statement of
\* createOrUpdatePoolBalance (routes.ts:1758-1775)
StartDeposit(p) ==
    \E a \in Accounts, amt \in Amounts, rejected \in BOOLEAN :
        /\ CanStart(p)
        /\ IF rejected
           THEN Rejected(p, "deposit") /\ rowLock' = rowLock
           ELSE CoupSelectInto(p, [ReqIdle EXCEPT !.route = "deposit",
                                                  !.type = "deposit",
                                                  !.account = a, !.amount = amt,
                                                  !.txHash = 100])
        /\ opsStarted' = opsStarted + 1
        /\ UNCHANGED <<now, authVars, dbVars, chainVars>>

\* The balance pre-check shared by the withdraw and pool-mint routes:
\* !poolBalance || parseFloat(poolBalance.balance) < parseFloat(amount)
PoolBalanceCovers(a, amt) ==
    /\ poolBalances[a] # NoRow
    /\ ~CountLess(poolBalances[a].balance, amt)

\* POST /api/pool/withdraw (routes.ts:1801-1823): storage.getPoolBalance and
\* the test of the row it returned
StartWithdraw(p) ==
    \E a \in Accounts, amt \in Amounts, rejected \in BOOLEAN :
        /\ CanStart(p)
        /\ opsStarted' = opsStarted + 1
        /\ IF rejected
           THEN Rejected(p, "withdraw")
           ELSE IF ~PoolBalanceCovers(a, amt)
           THEN Respond(p, "withdraw", "InsufficientBalance", 0)
           ELSE /\ pc' = [pc EXCEPT ![p] = "wdChain"]
                /\ req' = [req EXCEPT ![p] =
                             [ReqIdle EXCEPT !.route = "withdraw", !.type = "withdraw",
                                             !.account = a, !.amount = amt]]
        /\ UNCHANGED <<now, authVars, dbVars, rowLock, chainVars>>

\* withdrawFromPool (part_004:326-352, routes.ts:1825-1829). `sent` is false
\* when the submission fails or the on-chain pool refuses the withdrawal;
\* `confirmed` is false when tx.wait() throws although the transaction is
\* mined. Either way the relayer reports { success: false } and the route
\* answers 500.
WdChain(p) ==
    \E sent \in BOOLEAN, confirmed \in BOOLEAN :
        /\ pc[p] = "wdChain"
        /\ LET r == req[p]
               mined == sent /\ ChainAmountOk(r.amount)
           IN  /\ chainTxs' = IF mined THEN chainTxs + 1 ELSE chainTxs
               /\ IF mined /\ confirmed
                  THEN /\ pc' = [pc EXCEPT ![p] = "coupSelect"]
                       /\ req' = [req EXCEPT ![p].txHash = chainTxs + 1]
                  ELSE Respond(p, "withdraw", "ChainTransactionFailed", 0)
        /\ UNCHANGED <<now, authVars, dbVars, rowLock, isListed, listingPrices,
                       relayerOwns, mintVars, veilxCollection, opsStarted>>

\* deductFromPool (part_004:298-321): PrivacyPool.deductForMint sent by the
\* relayer for the handler of slot p, which goes on to `next` when the call
\* reports success. Nothing gives the deduction back later.
DeductFromPool(p, next) ==
    \E sent \in BOOLEAN, confirmed \in BOOLEAN :
        LET r == req[p]
            mined == sent /\ ChainAmountOk(r.amount)
        IN  /\ deductedForMint' = IF mined
                                  THEN [deductedForMint EXCEPT ![r.account] = @ + r.amount]
                                  ELSE deductedForMint
            /\ chainTxs' = IF mined THEN chainTxs + 1 ELSE chainTxs
            /\ IF mined /\ confirmed
               THEN pc' = [pc EXCEPT ![p] = next] /\ req' = req
               ELSE Respond(p, r.route, "ChainTransactionFailed", 0)
            /\ UNCHANGED <<now, authVars, dbVars, rowLock, isListed, listingPrices,
                           relayerOwns, mintedValue, veilxCollection, opsStarted>>

\* The relayer's mint transaction (part_004:398-427 for the pool mint,
\* part_004:168-215 for the collection mint): contract.mint, tx.wait() and
\* the token id read from the receipt, one of tokenIds. The handler goes on
\* to `next` with the hash and the token id when the call reports success; a
\* mint that is mined while tx.wait() throws is reported as failed.
RelayerMint(p, next, tokenIds) ==
    \E sent \in BOOLEAN, confirmed \in BOOLEAN, tokenId \in tokenIds :
        LET r == req[p]
            mined == sent
        IN  /\ mintedValue' = IF mined
                              THEN [mintedValue EXCEPT ![r.account] = @ + r.amount]
                              ELSE mintedValue
            /\ chainTxs' = IF mined THEN chainTxs + 1 ELSE chainTxs
            /\ IF mined /\ confirmed
               THEN /\ pc' = [pc EXCEPT ![p] = next]
                    /\ req' = [req EXCEPT ![p].txHash = chainTxs + 1,
                                          ![p].tokenId = tokenId]
               ELSE Respond(p, r.route, "ChainTransactionFailed", 0)
            /\ UNCHANGED <<now, authVars, dbVars, rowLock, isListed, listingPrices,
                           relayerOwns, deductedForMint, veilxCollection,
                           opsStarted>>

\* POST /api/pool/mint (routes.ts:1863-1891): storage.getPoolBalance and the
\* test of the row it returned
StartPoolMint(p) ==
    \E a \in Accounts, amt \in Amounts, rejected \in BOOLEAN :
        /\ CanStart(p)
        /\ opsStarted' = opsStarted + 1
        /\ IF rejected
           THEN Rejected(p, "poolMint")
           ELSE IF ~PoolBalanceCovers(a, amt)
           THEN Respond(p, "poolMint", "InsufficientBalance", 0)
           ELSE /\ pc' = [pc EXCEPT ![p] = "pmDeduct"]
                /\ req' = [req EXCEPT ![p] =
                             [ReqIdle EXCEPT !.route = "poolMint", !.type = "mint_payment",
                                             !.account = a, !.amount = amt]]
        /\ UNCHANGED <<now, authVars, dbVars, rowLock, chainVars>>

\* privateMintFromPool, first transaction (part_004:382-385)
PmDeduct(p) ==
    /\ pc[p] = "pmDeduct"
    /\ DeductFromPool(p, "pmMint")

\* privateMintFromPool, second transaction (part_004:398-427), and the
\* route's test of result.success (routes.ts:1910-1913). The token ids of
\* nfts outside the collection are not tracked: an id that is taken makes
\* createNft throw (part_001:38), which is one of the throws of AfterCoupFail.
PmMint(p) ==
    /\ pc[p] = "pmMint"
    /\ RelayerMint(p, "coupSelect", {0})

\* storage.createNft of the pool-mint route (routes.ts:1926-1933,
\* part_003:248-260), run after createOrUpdatePoolBalance returned
CreateNft(p) ==
    /\ pc[p] = "afterCoup"
    /\ req[p].route = "poolMint"
    /\ nftRows' = nftRows + 1
    /\ pc' = [pc EXCEPT ![p] = "recordTx"]
    /\ UNCHANGED <<now, authVars, poolBalances, poolTransactions, listings, trades,
                   nftOwner, mintedCount, collectionNfts, rowLock, chainVars, req,
                   opsStarted>>

\* Whether the handler of slot p is about to run recordPoolTransaction
AtRecordTx(p) ==
    \/ pc[p] = "afterCoup" /\ req[p].route \in {"deposit", "withdraw"}
    \/ pc[p] = "recordTx"

\* recordPoolTransaction and the response of the three routes
\* (routes.ts:1778-1788, 1840-1850, 1936-1948)
AfterCoup(p) ==
    /\ AtRecordTx(p)
    /\ LET r == req[p]
       IN  /\ poolTransactions' =
                 BagAdd(poolTransactions,
                        PoolTx(r.account, r.type, r.amount, r.txHash,
                               IF r.route = "poolMint" THEN "minted" ELSE "none"))
           /\ Respond(p, r.route, "ok", 0)
    /\ UNCHANGED <<now, authVars, poolBalances, listings, trades, nftOwner,
                   mintedCount, nftRows, collectionNfts, rowLock, chainVars, opsStarted>>

\* createNft or recordPoolTransaction throws after createOrUpdatePoolBalance
\* has committed: the catch block of the route answers 500 (routes.ts:
\* 1790-1797, 1852-1859, 1950-1957) and what was written stays.
AfterCoupFail(p) ==
    /\ pc[p] \in {"afterCoup", "recordTx"}
    /\ req[p].route \in {"deposit", "withdraw", "poolMint"}
    /\ Respond(p, req[p].route, "DatabaseError", 0)
    /\ UNCHANGED <<now, authVars, dbVars, rowLock, chainVars, opsStarted>>

\* POST /api/collections/pool-mint (routes.ts:1554-1593): the body is parsed
\* and verifySignedRequest runs before the first await
StartCollectionPoolMint(p) ==
    \E signer \in SignersLower, a \in Accounts, amt \in Amounts :
        /\ CanStart(p)
        /\ opsStarted' = opsStarted + 1
        /\ RouteAuthorize(signer, a)
        /\ IF ~RouteAuthValid(signer, a)
           THEN Respond(p, "collectionMint", "Unauthorized", 0)
           ELSE /\ pc' = [pc EXCEPT ![p] = "cpmCollection"]
                /\ req' = [req EXCEPT ![p] =
                             [ReqIdle EXCEPT !.route = "collectionMint",
                                             !.type = "mint_payment",
                                             !.account = a, !.amount = amt]]
        /\ UNCHANGED <<now, dbVars, rowLock, chainVars>>

\* routes.ts:1598-1621: the collection row and the sold-out check on it
CpmCollection(p) ==
    /\ pc[p] = "cpmCollection"
    /\ IF mintedCount >= TotalSupply
       THEN Respond(p, "collectionMint", "SoldOut", 0)
       ELSE pc' = [pc EXCEPT ![p] = "cpmBalance"] /\ req' = req
    /\ UNCHANGED <<now, authVars, dbVars, rowLock, chainVars, opsStarted>>

\* routes.ts:1624-1629: the pool balance row and the check on it
CpmBalance(p) ==
    /\ pc[p] = "cpmBalance"
    /\ IF ~PoolBalanceCovers(req[p].account, req[p].amount)
       THEN Respond(p, "collectionMint", "InsufficientBalance", 0)
       ELSE pc' = [pc EXCEPT ![p] = "cpmDeduct"] /\ req' = req
    /\ UNCHANGED <<now, authVars, dbVars, rowLock, chainVars, opsStarted>>

\* routes.ts:1641-1646: deductFromPool
CpmDeduct(p) ==
    /\ pc[p] = "cpmDeduct"
    /\ DeductFromPool(p, "cpmMint")

\* routes.ts:1651-1662: privateMintFromCollection
CpmMint(p) ==
    /\ pc[p] = "cpmMint"
    /\ RelayerMint(p, "pmfcLockCollection", TokenIds)

\* poolMintFromCollection: SELECT collection FOR UPDATE and the checks on it
\* (part_003:696-712)
PmfcLockCollection(p) ==
    /\ pc[p] = "pmfcLockCollection"
    /\ rowLock["collection"] = NoProc
    /\ IF mintedCount >= TotalSupply
       THEN /\ Respond(p, "collectionMint", "SoldOut", 0)
            /\ rowLock' = rowLock
       ELSE /\ rowLock' = [rowLock EXCEPT !["collection"] = p]
            /\ pc' = [pc EXCEPT ![p] = "pmfcDebit"]
            /\ req' = req
    /\ UNCHANGED <<now, authVars, dbVars, chainVars, opsStarted>>

\* One row of the nfts table that belongs to the collection (part_001:28,
\* part_003:206-215, 716-725): its token_id and the storage call that
\* inserted it.
CollectionNft(tokenId, mintedBy) == [tokenId |-> tokenId, mintedBy |-> mintedBy]

\* unique("unique_collection_token") on (collection_id, token_id)
\* (part_001:37): an insert of a token_id the collection already has throws.
TokenIdTaken(tokenId) ==
    \E row \in BagToSet(collectionNfts) : row.tokenId = tokenId

\* poolMintFromCollection from the nfts insert to the commit
\* (part_003:714-772): the row carries the token id the chain returned
\* (routes.ts:1670-1677), the balance row is locked as soon as it is free and
\* the rest of the transaction runs under the two locks. Every throw rolls
\* the whole transaction back.
PmfcDebit(p) ==
        /\ pc[p] = "pmfcDebit"
        /\ LET r == req[p]
               onChainTokenId == r.tokenId     \* result.tokenId, routes.ts:1676
               existingBalance == poolBalances[r.account]
               amountNum == r.amount
               newMintedCount == mintedCount + 1
           IN  /\ (~TokenIdTaken(onChainTokenId) /\ existingBalance # NoRow)
                      => rowLock[r.account] = NoProc
               /\ rowLock' = ReleaseLocks(p)
               /\ IF TokenIdTaken(onChainTokenId)
                  THEN /\ Respond(p, "collectionMint", "DatabaseError", 0)
                       /\ UNCHANGED <<poolBalances, poolTransactions, mintedCount,
                                      nftRows, collectionNfts>>
                  ELSE IF existingBalance = NoRow
                  THEN /\ Respond(p, "collectionMint", "AccountNotFound", 0)
                       /\ UNCHANGED <<poolBalances, poolTransactions, mintedCount,
                                      nftRows, collectionNfts>>
                  ELSE IF CountLess(existingBalance.balance, amountNum)
                  THEN /\ Respond(p, "collectionMint", "InsufficientBalance", 0)
                       /\ UNCHANGED <<poolBalances, poolTransactions, mintedCount,
                                      nftRows, collectionNfts>>
                  ELSE /\ nftRows' = nftRows + 1
                       /\ collectionNfts' =
                            BagAdd(collectionNfts,
                                   CollectionNft(onChainTokenId, "poolMintFromCollection"))
                       /\ mintedCount' = newMintedCount
                       /\ poolBalances' =
                            [poolBalances EXCEPT ![r.account] =
                               PoolRow(CountSub(existingBalance.balance, amountNum),
                                       existingBalance.totalDeposited,
                                       CountAdd(existingBalance.totalSpent, amountNum))]
                       /\ poolTransactions' =
                            BagAdd(poolTransactions,
                                   PoolTx(r.account, "mint_payment", r.amount, r.txHash, "minted"))
                       /\ Respond(p, "collectionMint", "ok", 0)
        /\ UNCHANGED <<now, authVars, listings, trades, nftOwner, chainVars, opsStarted>>

\* A storage call of the pool-mint route of a collection is rejected
\* (connection or database error): getCollectionById (routes.ts:1598),
\* getPoolBalance (1624) or a statement of poolMintFromCollection (1670,
\* part_003:696-772), whose transaction rolls back. The catch block answers
\* 500 (routes.ts:1688-1695); after the mint this leaves the token minted
\* and paid for on the chain and the database as it was.
CpmFail(p) ==
    /\ pc[p] \in {"cpmCollection", "cpmBalance", "pmfcLockCollection", "pmfcDebit"}
    /\ rowLock' = ReleaseLocks(p)
    /\ Rejected(p, "collectionMint")
    /\ UNCHANGED <<now, authVars, dbVars, chainVars, opsStarted>>

\* POST /api/collections/:id/mint up to the call of mintFromCollection
\* (routes.ts:1492-1518): the route takes no signature and no payment.
StartMintFromCollection(p) ==
    \E rejected \in BOOLEAN :
        /\ CanStart(p)
        /\ opsStarted' = opsStarted + 1
        /\ IF rejected
           THEN Rejected(p, "mint")
           ELSE /\ pc' = [pc EXCEPT ![p] = "mfcLockCollection"]
                /\ req' = [req EXCEPT ![p] = [ReqIdle EXCEPT !.route = "mint"]]
        /\ UNCHANGED <<now, authVars, dbVars, rowLock, chainVars>>

\* mintFromCollection reading the collection row without FOR UPDATE
MfcLockCollectionNoLock(p) ==
    /\ pc[p] = "mfcLockCollection"
    /\ IF mintedCount >= TotalSupply
       THEN /\ Respond(p, "mint", "SoldOut", 0)
       ELSE /\ pc' = [pc EXCEPT ![p] = "mfcInsert"]
            /\ req' = req
    /\ UNCHANGED <<now, authVars, dbVars, rowLock, chainVars, opsStarted>>

\* mintFromCollection: SELECT collection FOR UPDATE and the checks on it
\* (part_003:187-202)
MfcLockCollection(p) ==
    /\ pc[p] = "mfcLockCollection"
    /\ rowLock["collection"] = NoProc
    /\ IF mintedCount >= TotalSupply
       THEN /\ Respond(p, "mint", "SoldOut", 0)
            /\ rowLock' = rowLock
       ELSE /\ rowLock' = [rowLock EXCEPT !["collection"] = p]
            /\ pc' = [pc EXCEPT ![p] = "mfcInsert"]
            /\ req' = req
    /\ UNCHANGED <<now, authVars, dbVars, chainVars, opsStarted>>

\* mintFromCollection from the token number to the commit (part_003:204-222)
MfcInsert(p) ==
    /\ pc[p] = "mfcInsert"
    /\ LET tokenNumber == mintedCount + 1
       IN  /\ rowLock' = ReleaseLocks(p)
           /\ IF TokenIdTaken(tokenNumber)
              THEN /\ Respond(p, "mint", "DatabaseError", 0)
                   /\ UNCHANGED <<mintedCount, collectionNfts>>
              ELSE /\ collectionNfts' =
                        BagAdd(collectionNfts,
                               CollectionNft(tokenNumber, "mintFromCollection"))
                   /\ mintedCount' = tokenNumber
                   /\ Respond(p, "mint", "ok", 0)
    /\ UNCHANGED <<now, authVars, poolBalances, poolTransactions, listings, trades,
                   nftOwner, nftRows, chainVars, opsStarted>>

\* A statement of mintFromCollection is rejected (connection or database
\* error): the transaction rolls back and the catch block of the route
\* answers 500 (routes.ts:1521-1537).
MfcFail(p) ==
    /\ pc[p] \in {"mfcLockCollection", "mfcInsert"}
    /\ rowLock' = ReleaseLocks(p)
    /\ Rejected(p, "mint")
    /\ UNCHANGED <<now, authVars, dbVars, chainVars, opsStarted>>

----------------------------------------------------------------------------
(* External ledger: the listing state of VeilXCollection                   *)

\* listNFT called from the owner's own wallet (VeilXCollection.sol:143-164)
ChainListByOwner ==
    \E n \in Nfts, price \in Prices :
        /\ ~relayerOwns[n]
        /\ ~isListed[n]
        /\ price > 0
        /\ isListed' = [isListed EXCEPT ![n] = TRUE]
        /\ listingPrices' = [listingPrices EXCEPT ![n] = price]
        /\ UNCHANGED <<now, authVars, dbVars, rowLock, relayerOwns, chainTxs,
                       mintVars, veilxCollection, pc, req, opsStarted>>

\* unlistNFT called from the owner's own wallet (VeilXCollection.sol:166-176)
ChainUnlistByOwner ==
    \E n \in Nfts :
        /\ ~relayerOwns[n]
        /\ isListed[n]
        /\ isListed' = [isListed EXCEPT ![n] = FALSE]
        /\ listingPrices' = [listingPrices EXCEPT ![n] = 0]
        /\ UNCHANGED <<now, authVars, dbVars, rowLock, relayerOwns, chainTxs,
                       mintVars, veilxCollection, pc, req, opsStarted>>

\* buyNFT called from a wallet with the listing price as value
\* (VeilXCollection.sol:178-207): any sender buys a listed token, whoever
\* owns it, and is its owner afterwards
ChainBuyByWallet ==
    \E n \in Nfts :
        /\ isListed[n]
        /\ isListed' = [isListed EXCEPT ![n] = FALSE]
        /\ listingPrices' = [listingPrices EXCEPT ![n] = 0]
        /\ relayerOwns' = [relayerOwns EXCEPT ![n] = FALSE]
        /\ UNCHANGED <<now, authVars, dbVars, rowLock, chainTxs, mintVars,
                       veilxCollection, pc, req, opsStarted>>

\* transferNFT called from the owner's own wallet with the relayer as
\* recipient (VeilXCollection.sol:209-227), or acceptOffer called by the
\* owner on an offer the relayer made (VeilXCollection.sol:333-392): the
\* token is not listed and the relayer owns it afterwards
ChainTransferToRelayer ==
    \E n \in Nfts :
        /\ ~relayerOwns[n]
        /\ ~isListed[n]
        /\ relayerOwns' = [relayerOwns EXCEPT ![n] = TRUE]
        /\ UNCHANGED <<now, authVars, dbVars, rowLock, isListed, listingPrices,
                       chainTxs, mintVars, veilxCollection, pc, req, opsStarted>>

\* buyNFTViaRelayer (part_004:614-660) against buyNFT
\* (VeilXCollection.sol:178-207): whether the purchase is mined
RelayerBuySucceeds(n, price) ==
    /\ isListed[n]
    /\ ChainAmountOk(price)
    /\ price >= listingPrices[n]

\* listNFTViaRelayer (part_004:456-505) against listNFT
\* (VeilXCollection.sol:143-164): whether the listing is mined
RelayerListSucceeds(n, price) ==
    /\ relayerOwns[n]
    /\ ChainAmountOk(price)
    /\ ~isListed[n]
    /\ price > 0

\* unlistNFTViaRelayer (part_004:548-595) against unlistNFT
\* (VeilXCollection.sol:166-176): whether the unlisting is mined
RelayerUnlistSucceeds(n) ==
    /\ relayerOwns[n]
    /\ isListed[n]

\* acceptOfferViaRelayer (part_004:803-845) against acceptOffer
\* (VeilXCollection.sol:333-392): whether the acceptance of an active offer
\* on token n is mined
RelayerAcceptSucceeds(n) ==
    /\ relayerOwns[n]
    /\ ~isListed[n]

\* isRelayerOwner (part_004:507-517): a failed read reports false
isRelayerOwner(n, readOk) == readOk /\ relayerOwns[n]

----------------------------------------------------------------------------
(* ListingRegistry: DatabaseStorage.createListing / deactivateListing      *)

ListingIds == 1..Len(listings)

\* Rows that getListingByNftId's query matches (part_003:304-308)
ActiveListingIds(n) == {i \in ListingIds : listings[i].nftId = n /\ listings[i].isActive}

\* deactivateListing (part_003:325-329): UPDATE ... SET is_active = false
deactivateListing(ls, listingId) ==
    [i \in DOMAIN ls |-> IF i = listingId THEN [ls[i] EXCEPT !.isActive = FALSE] ELSE ls[i]]

\* The row createListing inserts (part_003:316-321); isActive is
\* insertListing.isActive ?? true
NewListing(n, seller, price, isActive) ==
    [nftId |-> n, encryptedSeller |-> seller, price |-> price, isActive |-> isActive]

\* Requests of the two listing routes that are under way; a listing route
\* is started only while the explored listings table has room for its row.
InCreateListing ==
    {q \in Procs : pc[q] # "idle" /\ req[q].route \in {"createListing", "relayerListing"}}
ListingRoom == Len(listings) + Cardinality(InCreateListing) < MaxListings

\* createListing, first statement: existingListing = getListingByNftId(nftId)
\* (part_003:311); the query returns any one of the matching rows.
ClRead(p) ==
    /\ pc[p] = "clRead"
    /\ \/ /\ ActiveListingIds(req[p].nft) = {}
          /\ req' = [req EXCEPT ![p].listingId = 0]
          /\ pc' = [pc EXCEPT ![p] = "clInsert"]
       \/ \E i \in ActiveListingIds(req[p].nft) :
             /\ req' = [req EXCEPT ![p].listingId = i]
             /\ pc' = [pc EXCEPT ![p] = "clDeactivate"]
    /\ UNCHANGED <<now, authVars, dbVars, rowLock, chainVars, opsStarted>>

\* createListing: deactivateListing(existingListing.id) (part_003:312-314)
ClDeactivate(p) ==
    /\ pc[p] = "clDeactivate"
    /\ listings' = deactivateListing(listings, req[p].listingId)
    /\ pc' = [pc EXCEPT ![p] = "clInsert"]
    /\ UNCHANGED <<now, authVars, poolBalances, poolTransactions, trades, nftOwner,
                   mintedCount, nftRows, collectionNfts, rowLock, chainVars, req, opsStarted>>

\* createListing: the insert (part_003:316-322), and the route's 201 response
ClInsert(p) ==
    /\ pc[p] = "clInsert"
    /\ LET r == req[p]
       IN  /\ listings' = Append(listings,
                                 NewListing(r.nft, r.seller, r.price, r.isActive))
           /\ Respond(p, r.route, "ok", Len(listings) + 1)
    /\ UNCHANGED <<now, authVars, poolBalances, poolTransactions, trades, nftOwner,
                   mintedCount, nftRows, collectionNfts, rowLock, chainVars, opsStarted>>

\* A storage call of one of the two listing routes is rejected (connection
\* or database error): getNftById of the relayer route (routes.ts:380) or a
\* statement of createListing (part_003:310-323), which runs in no
\* transaction. The catch block answers 500 (routes.ts:330-337, 436-443):
\* a deactivation createListing has made stays, and so does a listing the
\* relayer has made on the chain.
ClFail(p) ==
    /\ pc[p] \in {"rlNft", "clRead", "clDeactivate", "clInsert"}
    /\ Rejected(p, req[p].route)
    /\ UNCHANGED <<now, authVars, dbVars, rowLock, chainVars, opsStarted>>

\* The prices a POST /api/listings body can carry: insertListingSchema takes
\* any string for the numeric column, and the column any sign
BodyPrices == {-1, 0} \cup Prices

\* POST /api/listings (routes.ts:313-326): the body, with the isActive it
\* may carry (part_001:129-132), storage.getNftById and the owner check
StartCreateListing(p) ==
    \E n \in Nfts, seller \in Accounts, price \in BodyPrices, isActive \in BOOLEAN,
       rejected \in BOOLEAN :
        /\ CanStart(p)
        /\ ListingRoom
        /\ opsStarted' = opsStarted + 1
        /\ IF rejected
           THEN Rejected(p, "createListing")
           ELSE IF nftOwner[n] # seller
           THEN Respond(p, "createListing", "NotOwner", 0)
           ELSE /\ pc' = [pc EXCEPT ![p] = "clRead"]
                /\ req' = [req EXCEPT ![p] =
                             [ReqIdle EXCEPT !.route = "createListing", !.nft = n,
                                             !.seller = seller, !.price = price,
                                             !.isActive = isActive]]
        /\ UNCHANGED <<now, authVars, dbVars, rowLock, chainVars>>

\* POST /api/listings/relayer (routes.ts:342-377): the body is parsed and
\* verifySignedRequest runs before the first await
StartRelayerListing(p) ==
    \E signer \in SignersLower, n \in Nfts, seller \in Accounts, price \in Prices :
        /\ CanStart(p)
        /\ ListingRoom
        /\ opsStarted' = opsStarted + 1
        /\ RouteAuthorize(signer, seller)
        /\ IF ~RouteAuthValid(signer, seller)
           THEN Respond(p, "relayerListing", "Unauthorized", 0)
           ELSE /\ pc' = [pc EXCEPT ![p] = "rlNft"]
                /\ req' = [req EXCEPT ![p] =
                             [ReqIdle EXCEPT !.route = "relayerListing", !.nft = n,
                                             !.seller = seller, !.price = price]]
        /\ UNCHANGED <<now, dbVars, rowLock, chainVars>>

\* routes.ts:380-388: storage.getNftById and the owner check
RlNft(p) ==
    /\ pc[p] = "rlNft"
    /\ IF nftOwner[req[p].nft] # req[p].seller
       THEN Respond(p, "relayerListing", "NotOwner", 0)
       ELSE pc' = [pc EXCEPT ![p] = "rlOwner"] /\ req' = req
    /\ UNCHANGED <<now, authVars, dbVars, rowLock, chainVars, opsStarted>>

\* routes.ts:397-402: isRelayerOwner
RlOwner(p) ==
    \E readOk \in BOOLEAN :
        /\ pc[p] = "rlOwner"
        /\ IF ~isRelayerOwner(req[p].nft, readOk)
           THEN Respond(p, "relayerListing", "NotRelayerOwned", 0)
           ELSE pc' = [pc EXCEPT ![p] = "rlChain"] /\ req' = req
        /\ UNCHANGED <<now, authVars, dbVars, rowLock, chainVars, opsStarted>>

\* routes.ts:409-420: listNFTViaRelayer (part_004:456-505). `sent` is false
\* when its ownerOf read or the submission fails; `confirmed` is false when
\* tx.wait() throws although the transaction is mined. Either way the
\* relayer reports { success: false } and the route answers 500.
RlChain(p) ==
    \E sent \in BOOLEAN, confirmed \in BOOLEAN :
        /\ pc[p] = "rlChain"
        /\ LET r == req[p]
               mined == sent /\ RelayerListSucceeds(r.nft, r.price)
           IN  /\ IF mined
                  THEN /\ isListed' = [isListed EXCEPT ![r.nft] = TRUE]
                       /\ listingPrices' = [listingPrices EXCEPT ![r.nft] = r.price]
                       /\ chainTxs' = chainTxs + 1
                       /\ UNCHANGED <<relayerOwns, mintVars, veilxCollection>>
                  ELSE UNCHANGED chainVars
               /\ IF mined /\ confirmed
                  THEN pc' = [pc EXCEPT ![p] = "clRead"] /\ req' = req
                  ELSE Respond(p, "relayerListing", "ChainTransactionFailed", 0)
        /\ UNCHANGED <<now, authVars, dbVars, rowLock, opsStarted>>

\* POST /api/relayer/unlist (routes.ts:448-473): the body is parsed and
\* verifySignedRequest runs before the first await
StartRelayerUnlist(p) ==
    \E signer \in SignersLower, n \in Nfts, owner \in Accounts :
        /\ CanStart(p)
        /\ opsStarted' = opsStarted + 1
        /\ RouteAuthorize(signer, owner)
        /\ IF ~RouteAuthValid(signer, owner)
           THEN Respond(p, "relayerUnlist", "Unauthorized", 0)
           ELSE /\ pc' = [pc EXCEPT ![p] = "ruNft"]
                /\ req' = [req EXCEPT ![p] =
                             [ReqIdle EXCEPT !.route = "relayerUnlist", !.nft = n,
                                             !.seller = owner]]
        /\ UNCHANGED <<now, dbVars, rowLock, chainVars>>

\* routes.ts:477-485: storage.getNftById and the owner check
RuNft(p) ==
    /\ pc[p] = "ruNft"
    /\ IF nftOwner[req[p].nft] # req[p].seller
       THEN Respond(p, "relayerUnlist", "NotOwner", 0)
       ELSE pc' = [pc EXCEPT ![p] = "ruListing"] /\ req' = req
    /\ UNCHANGED <<now, authVars, dbVars, rowLock, chainVars, opsStarted>>

\* routes.ts:494-497: storage.getListingByNftId
RuListing(p) ==
    /\ pc[p] = "ruListing"
    /\ \/ /\ ActiveListingIds(req[p].nft) = {}
          /\ Respond(p, "relayerUnlist", "NotActive", 0)
       \/ \E i \in ActiveListingIds(req[p].nft) :
             /\ pc' = [pc EXCEPT ![p] = "ruOwner"]
             /\ req' = [req EXCEPT ![p].listingId = i]
    /\ UNCHANGED <<now, authVars, dbVars, rowLock, chainVars, opsStarted>>

\* routes.ts:500-506: isRelayerOwner
RuOwner(p) ==
    \E readOk \in BOOLEAN :
        /\ pc[p] = "ruOwner"
        /\ IF ~isRelayerOwner(req[p].nft, readOk)
           THEN Respond(p, "relayerUnlist", "NotRelayerOwned", req[p].listingId)
           ELSE pc' = [pc EXCEPT ![p] = "ruChainOwner"] /\ req' = req
        /\ UNCHANGED <<now, authVars, dbVars, rowLock, chainVars, opsStarted>>

\* unlistNFTViaRelayer, the ownerOf read (part_004:557-564). A read that
\* throws, or an owner that is not the relayer, makes the relayer report a
\* failure that the route answers with 500 (routes.ts:525-529).
RuChainOwner(p) ==
    \E readOk \in BOOLEAN :
        /\ pc[p] = "ruChainOwner"
        /\ IF ~(readOk /\ relayerOwns[req[p].nft])
           THEN Respond(p, "relayerUnlist", "ChainTransactionFailed", req[p].listingId)
           ELSE pc' = [pc EXCEPT ![p] = "ruChainListed"] /\ req' = req
        /\ UNCHANGED <<now, authVars, dbVars, rowLock, chainVars, opsStarted>>

\* unlistNFTViaRelayer, the isListed read (part_004:566-573). A read that
\* throws is answered with 500; a token read as not listed makes the route
\* deactivate the local listing and answer 200 (routes.ts:514-523).
RuChainListed(p) ==
    \E readOk \in BOOLEAN :
        /\ pc[p] = "ruChainListed"
        /\ IF ~readOk
           THEN Respond(p, "relayerUnlist", "ChainTransactionFailed", req[p].listingId)
           ELSE IF ~isListed[req[p].nft]
           THEN /\ pc' = [pc EXCEPT ![p] = "deactivate"]
                /\ req' = [req EXCEPT ![p].result = "Synced"]
           ELSE pc' = [pc EXCEPT ![p] = "ruChainTx"] /\ req' = req
        /\ UNCHANGED <<now, authVars, dbVars, rowLock, chainVars, opsStarted>>

\* unlistNFTViaRelayer, the transaction (part_004:579-594), and the route's
\* test of result.success (routes.ts:514-532). A transaction that is mined
\* while tx.wait() throws is reported as failed, and the route answers 500
\* with the local listing still active.
RuChainTx(p) ==
    \E sent \in BOOLEAN, confirmed \in BOOLEAN :
        /\ pc[p] = "ruChainTx"
        /\ LET r == req[p]
               mined == sent /\ RelayerUnlistSucceeds(r.nft)
           IN  /\ IF mined
                  THEN /\ isListed' = [isListed EXCEPT ![r.nft] = FALSE]
                       /\ listingPrices' = [listingPrices EXCEPT ![r.nft] = 0]
                       /\ chainTxs' = chainTxs + 1
                       /\ UNCHANGED <<relayerOwns, mintVars, veilxCollection>>
                  ELSE UNCHANGED chainVars
               /\ IF mined /\ confirmed
                  THEN /\ pc' = [pc EXCEPT ![p] = "deactivate"]
                       /\ req' = [req EXCEPT ![p].result = "ok"]
                  ELSE Respond(p, "relayerUnlist", "ChainTransactionFailed", r.listingId)
        /\ UNCHANGED <<now, authVars, dbVars, rowLock, opsStarted>>

\* POST /api/listings/cancel (routes.ts:550-563): storage.getListingByNftId
StartCancelListing(p) ==
    \E n \in Nfts :
        /\ CanStart(p)
        /\ opsStarted' = opsStarted + 1
        /\ \/ Rejected(p, "cancel")
           \/ /\ ActiveListingIds(n) = {}
              /\ Respond(p, "cancel", "NotActive", 0)
           \/ \E i \in ActiveListingIds(n) :
                 /\ pc' = [pc EXCEPT ![p] = "deactivate"]
                 /\ req' = [req EXCEPT ![p] = [ReqIdle EXCEPT !.route = "cancel",
                                                              !.nft = n, !.listingId = i,
                                                              !.result = "ok"]]
        /\ UNCHANGED <<now, authVars, dbVars, rowLock, chainVars>>

\* await storage.deactivateListing(listing.id) followed by the response the
\* handler had decided on (routes.ts:158, 518, 532, 566, 950, 974, 1065,
\* 1209, 1271)
DeactivateAndRespond(p) ==
    /\ pc[p] = "deactivate"
    /\ listings' = deactivateListing(listings, req[p].listingId)
    /\ Respond(p, req[p].route, req[p].result, req[p].listingId)
    /\ UNCHANGED <<now, authVars, poolBalances, poolTransactions, trades, nftOwner,
                   mintedCount, nftRows, collectionNfts, rowLock, chainVars, opsStarted>>

\* A storage call of POST /api/relayer/unlist is rejected (connection or
\* database error): getNftById (routes.ts:477), getListingByNftId (494) or
\* deactivateListing (518, 532). The catch block answers 500 (routes.ts:
\* 539-546); after the relayer's unlistNFT this leaves the local listing
\* active and the token unlisted on the chain.
RuFail(p) ==
    /\ \/ pc[p] \in {"ruNft", "ruListing"}
       \/ pc[p] = "deactivate" /\ req[p].route = "relayerUnlist"
    /\ Rejected(p, "relayerUnlist")
    /\ UNCHANGED <<now, authVars, dbVars, rowLock, chainVars, opsStarted>>

\* deactivateListing of POST /api/listings/cancel is rejected: the catch
\* block answers 500 (routes.ts:572-579)
CancelFail(p) ==
    /\ pc[p] = "deactivate"
    /\ req[p].route = "cancel"
    /\ Rejected(p, "cancel")
    /\ UNCHANGED <<now, authVars, dbVars, rowLock, chainVars, opsStarted>>

\* GET /api/nfts: getCollectionById (routes.ts:148) or deactivateListing
\* (158) is rejected. The catch block inside the map swallows the error and
\* the nft is returned with its listing (routes.ts:162-166).
ReconcileFail(p) ==
    /\ \/ pc[p] = "reconcile"
       \/ pc[p] = "deactivate" /\ req[p].route = "read"
    /\ Respond(p, "read", "Listed", req[p].listingId)
    /\ UNCHANGED <<now, authVars, dbVars, rowLock, chainVars, opsStarted>>

\* GET /api/nfts for one nft (routes.ts:139-147): storage.getNfts, which
\* attaches the active listing of the nft
StartReadNfts(p) ==
    \E n \in Nfts :
        /\ CanStart(p)
        /\ opsStarted' = opsStarted + 1
        /\ \/ Rejected(p, "read")
           \/ /\ ActiveListingIds(n) = {}
              /\ Respond(p, "read", "NoListing", 0)
           \/ \E i \in ActiveListingIds(n) :
                 /\ pc' = [pc EXCEPT ![p] = "reconcile"]
                 /\ req' = [req EXCEPT ![p] = [ReqIdle EXCEPT !.route = "read",
                                                              !.nft = n, !.listingId = i]]
        /\ UNCHANGED <<now, authVars, dbVars, rowLock, chainVars>>

\* checkOnChainListingStatus (part_004:901-922): a failed read reports
\* { isListed: false }
checkOnChainListingStatus(n, readOk) == readOk /\ isListed[n]

\* GET /api/nfts: the on-chain check and its verdict (routes.ts:150-166)
Reconcile(p) ==
    \E readOk \in BOOLEAN :
        /\ pc[p] = "reconcile"
        /\ IF ~checkOnChainListingStatus(req[p].nft, readOk)
           THEN /\ pc' = [pc EXCEPT ![p] = "deactivate"]
                /\ req' = [req EXCEPT ![p].result = "Reconciled"]
           ELSE Respond(p, "read", "Listed", req[p].listingId)
        /\ UNCHANGED <<now, authVars, dbVars, rowLock, chainVars, opsStarted>>

\* GET /api/nfts/search (routes.ts:1334-1350) and GET /api/collections/:id
\* (routes.ts:1450-1473) for one nft: searchNfts and getNftsByCollection
\* attach the nft's active listing, and the route answers with it as read
SearchNfts(p) ==
    \E n \in Nfts :
        /\ CanStart(p)
        /\ opsStarted' = opsStarted + 1
        /\ \/ Rejected(p, "search")
           \/ /\ ActiveListingIds(n) = {}
              /\ Respond(p, "search", "NoListing", 0)
           \/ \E i \in ActiveListingIds(n) :
                 Respond(p, "search", "Listed", i)
        /\ UNCHANGED <<now, authVars, dbVars, rowLock, chainVars>>

----------------------------------------------------------------------------
(* SettlementCoordinator: POST /api/buy/private and atomicPoolBuy          *)

\* routes.ts:994-1036: the body is parsed and verifySignedRequest runs
\* before the first await. signedNft and signedPrice are
\* signedRequest.data.nftId and .price: the signature covers them, the
\* handler reads neither.
PrivateBuyStart(p, signedNft, signedPrice) ==
    \E signer \in SignersLower, a \in Accounts, buyer \in Accounts \cup {"X"}, n \in Nfts :
        /\ CanStart(p)
        /\ opsStarted' = opsStarted + 1
        /\ RouteAuthorize(signer, a)
        /\ IF ~RouteAuthValid(signer, a)
           THEN Respond(p, "privateBuy", "Unauthorized", 0)
           ELSE /\ pc' = [pc EXCEPT ![p] = "pbNft"]
                /\ req' = [req EXCEPT ![p] =
                             [ReqIdle EXCEPT !.route = "privateBuy",
                                             !.account = a,
                                             !.encryptedBuyer = buyer,
                                             !.nft = n,
                                             !.signedNft = signedNft,
                                             !.signedPrice = signedPrice]]
        /\ UNCHANGED <<now, dbVars, rowLock, chainVars>>

\* routes.ts:1038-1041: storage.getNftById; the handler keeps the owner it
\* read
PbNft(p) ==
    /\ pc[p] = "pbNft"
    /\ pc' = [pc EXCEPT ![p] = "pbListing"]
    /\ req' = [req EXCEPT ![p].owner = nftOwner[req[p].nft]]
    /\ UNCHANGED <<now, authVars, dbVars, rowLock, chainVars, opsStarted>>

\* getListingByNftId and the test of the row it returned (routes.ts:
\* 1050-1053, 1194-1197); the handler of slot p goes on to `next` with the
\* listing it read
ReadListing(p, next) ==
    /\ \/ /\ ActiveListingIds(req[p].nft) = {}
          /\ Respond(p, req[p].route, "NotActive", 0)
       \/ \E i \in ActiveListingIds(req[p].nft) :
             /\ pc' = [pc EXCEPT ![p] = next]
             /\ req' = [req EXCEPT ![p].listingId = i,
                                   ![p].seller = listings[i].encryptedSeller,
                                   ![p].price = listings[i].price]
    /\ UNCHANGED <<now, authVars, dbVars, rowLock, chainVars, opsStarted>>

\* routes.ts:1050-1053: the active listing of the nft
PbListing(p) ==
    /\ pc[p] = "pbListing"
    /\ ReadListing(p, "pbChainCheck")

\* A private buy whose signed payload is not looked at
StartPrivateBuy(p) == PrivateBuyStart(p, "none", 0)

\* The payloads a buyer can have signed: this nft or another one, at either
\* price
SignedNfts == Nfts \cup {"n9"}

\* A private buy with its signed payload
StartSignedPrivateBuy(p) ==
    \E signedNft \in SignedNfts, signedPrice \in Prices :
        PrivateBuyStart(p, signedNft, signedPrice)

\* The private-buy route trusting the local listing: the verdict of the
\* on-chain check is not acted on
PbChainCheckLocalOnly(p) ==
    \E readOk \in BOOLEAN :
        /\ pc[p] = "pbChainCheck"
        /\ IF req[p].owner = req[p].encryptedBuyer
           THEN Respond(p, "privateBuy", "OwnNft", req[p].listingId)
           ELSE /\ pc' = [pc EXCEPT ![p] = "pbBalance"]
                /\ req' = req
        /\ UNCHANGED <<now, authVars, dbVars, rowLock, chainVars, opsStarted>>

\* routes.ts:1055-1075: the on-chain listing check and the own-NFT check
PbChainCheck(p) ==
    \E readOk \in BOOLEAN :
        /\ pc[p] = "pbChainCheck"
        /\ IF ~checkOnChainListingStatus(req[p].nft, readOk)
           THEN /\ pc' = [pc EXCEPT ![p] = "deactivate"]
                /\ req' = [req EXCEPT ![p].result = "StaleListing"]
           ELSE IF req[p].owner = req[p].encryptedBuyer
           THEN Respond(p, "privateBuy", "OwnNft", req[p].listingId)
           ELSE /\ pc' = [pc EXCEPT ![p] = "pbBalance"]
                /\ req' = req
        /\ UNCHANGED <<now, authVars, dbVars, rowLock, chainVars, opsStarted>>

\* The balance check done with SELECT ... FOR UPDATE in a transaction that
\* stays open over the relayer call
PbBalanceLocking(p) ==
    /\ pc[p] = "pbBalance"
    /\ LET r == req[p]
       IN  IF poolBalances[r.account] = NoRow
           THEN /\ Respond(p, "privateBuy", "AccountNotFound", r.listingId)
                /\ rowLock' = rowLock
           ELSE IF CountLess(poolBalances[r.account].balance, r.price)
           THEN /\ Respond(p, "privateBuy", "InsufficientBalance", r.listingId)
                /\ rowLock' = rowLock
           ELSE /\ rowLock[r.account] = NoProc
                /\ rowLock' = [rowLock EXCEPT ![r.account] = p]
                /\ pc' = [pc EXCEPT ![p] = "pbChainBuy"]
                /\ req' = req
    /\ UNCHANGED <<now, authVars, dbVars, chainVars, opsStarted>>

\* routes.ts:1077-1092: the buyer's pool balance, read without a lock
PbBalance(p) ==
    /\ pc[p] = "pbBalance"
    /\ LET r == req[p]
       IN  IF poolBalances[r.account] = NoRow
           THEN Respond(p, "privateBuy", "AccountNotFound", r.listingId)
           ELSE IF CountLess(poolBalances[r.account].balance, r.price)
           THEN Respond(p, "privateBuy", "InsufficientBalance", r.listingId)
           ELSE pc' = [pc EXCEPT ![p] = "pbChainBuy"] /\ req' = req
    /\ UNCHANGED <<now, authVars, dbVars, rowLock, chainVars, opsStarted>>

\* The private-buy route treating a failed purchase like a stale listing:
\* the local listing is deactivated before the error is returned
PbChainBuySyncOnFailure(p) ==
    \E sent \in BOOLEAN, confirmed \in BOOLEAN :
        /\ pc[p] = "pbChainBuy"
        /\ LET r == req[p]
               mined == sent /\ RelayerBuySucceeds(r.nft, r.price)
           IN  /\ IF mined
                  THEN /\ isListed' = [isListed EXCEPT ![r.nft] = FALSE]
                       /\ listingPrices' = [listingPrices EXCEPT ![r.nft] = 0]
                       /\ relayerOwns' = [relayerOwns EXCEPT ![r.nft] = TRUE]
                       /\ chainTxs' = chainTxs + 1
                       /\ UNCHANGED <<mintVars, veilxCollection>>
                  ELSE UNCHANGED chainVars
               /\ IF mined /\ confirmed
                  THEN /\ pc' = [pc EXCEPT ![p] = "apbLockBuyer"]
                       /\ req' = [req EXCEPT ![p].txHash = chainTxs + 1]
                       /\ listings' = listings
                  ELSE /\ Respond(p, "privateBuy", "ChainTransactionFailed", r.listingId)
                       /\ listings' = deactivateListing(listings, r.listingId)
        /\ UNCHANGED <<now, authVars, poolBalances, poolTransactions, trades,
                       nftOwner, mintedCount, nftRows, collectionNfts, rowLock, opsStarted>>

\* The private-buy route without its test of result.success: atomicPoolBuy
\* runs whatever the relayer reported, with no txHash after a failure
PbChainBuyIgnoreResult(p) ==
    \E sent \in BOOLEAN, confirmed \in BOOLEAN :
        /\ pc[p] = "pbChainBuy"
        /\ LET r == req[p]
               mined == sent /\ RelayerBuySucceeds(r.nft, r.price)
           IN  /\ IF mined
                  THEN /\ isListed' = [isListed EXCEPT ![r.nft] = FALSE]
                       /\ listingPrices' = [listingPrices EXCEPT ![r.nft] = 0]
                       /\ relayerOwns' = [relayerOwns EXCEPT ![r.nft] = TRUE]
                       /\ chainTxs' = chainTxs + 1
                       /\ UNCHANGED <<mintVars, veilxCollection>>
                  ELSE UNCHANGED chainVars
               /\ pc' = [pc EXCEPT ![p] = "apbLockBuyer"]
               /\ req' = [req EXCEPT ![p].txHash =
                             IF mined /\ confirmed THEN chainTxs + 1 ELSE 0]
        /\ UNCHANGED <<now, authVars, dbVars, rowLock, opsStarted>>

\* routes.ts:1100-1121: createServerEncryptedAddressInput and
\* buyNFTViaRelayer (part_004:614-660). `sent` is false when the encryption,
\* the isListed read or the submission fails; `confirmed` is false when
\* tx.wait() throws although the transaction is mined. Either way the
\* relayer reports { success: false } and the route answers 500.
PbChainBuy(p) ==
    \E sent \in BOOLEAN, confirmed \in BOOLEAN :
        /\ pc[p] = "pbChainBuy"
        /\ LET r == req[p]
               mined == sent /\ RelayerBuySucceeds(r.nft, r.price)
           IN  /\ IF mined
                  THEN /\ isListed' = [isListed EXCEPT ![r.nft] = FALSE]
                       /\ listingPrices' = [listingPrices EXCEPT ![r.nft] = 0]
                       /\ relayerOwns' = [relayerOwns EXCEPT ![r.nft] = TRUE]
                       /\ chainTxs' = chainTxs + 1
                       /\ UNCHANGED <<mintVars, veilxCollection>>
                  ELSE UNCHANGED chainVars
               /\ IF mined /\ confirmed
                  THEN /\ pc' = [pc EXCEPT ![p] = "apbLockBuyer"]
                       /\ req' = [req EXCEPT ![p].txHash = chainTxs + 1]
                  ELSE Respond(p, "privateBuy", "ChainTransactionFailed", r.listingId)
        /\ UNCHANGED <<now, authVars, dbVars, rowLock, opsStarted>>

\* atomicPoolBuy step 1 (part_003:789-803): lock and check the buyer's row
ApbLockBuyer(p) ==
    /\ pc[p] = "apbLockBuyer"
    /\ LET r == req[p]
           buyerPoolBalance == poolBalances[r.account]
       IN  IF buyerPoolBalance = NoRow
           THEN /\ Respond(p, "privateBuy", "Inconsistent:AccountNotFound", r.listingId)
                /\ rowLock' = rowLock
           ELSE /\ rowLock[r.account] = NoProc
                /\ IF CountLess(buyerPoolBalance.balance, r.price)
                   THEN /\ Respond(p, "privateBuy", "Inconsistent:InsufficientBalance",
                                   r.listingId)
                        /\ rowLock' = rowLock
                   ELSE /\ rowLock' = [rowLock EXCEPT ![r.account] = p]
                        /\ pc' = [pc EXCEPT ![p] = "apbLockSeller"]
                        /\ req' = [req EXCEPT ![p].existing = buyerPoolBalance]
    /\ UNCHANGED <<now, authVars, dbVars, chainVars, opsStarted>>

\* atomicPoolBuy step 2 (part_003:805-810): lock the seller's row if it exists
ApbLockSeller(p) ==
    /\ pc[p] = "apbLockSeller"
    /\ LET r == req[p]
       IN  IF poolBalances[r.seller] # NoRow
           THEN /\ LockFree(r.seller, p)
                /\ rowLock' = [rowLock EXCEPT ![r.seller] = p]
                /\ req' = [req EXCEPT ![p].sellerExisting = poolBalances[r.seller]]
           ELSE /\ rowLock' = rowLock
                /\ req' = [req EXCEPT ![p].sellerExisting = NoRow]
    /\ pc' = [pc EXCEPT ![p] = "apbCommit"]
    /\ UNCHANGED <<now, authVars, dbVars, chainVars, opsStarted>>

\* atomicPoolBuy step 3 (part_003:812-823): the buyer's row after the debit
DebitBuyer(balances, r) ==
    LET priceNum == r.price
        buyerCurrentBalance == r.existing.balance
    IN  [balances EXCEPT ![r.account] =
            PoolRow(CountSub(buyerCurrentBalance, priceNum),
                    balances[r.account].totalDeposited,
                    CountAdd(r.existing.totalSpent, priceNum))]

\* atomicPoolBuy step 4 (part_003:825-847): the seller's row after the credit,
\* computed from the row read in step 2
CreditSeller(balances, r) ==
    IF r.sellerExisting # NoRow
    THEN [balances EXCEPT ![r.seller] =
            PoolRow(CountAdd(r.sellerExisting.balance, r.price),
                    balances[r.seller].totalDeposited,
                    balances[r.seller].totalSpent)]
    ELSE [balances EXCEPT ![r.seller] = PoolRow(r.price, 0, 0)]

\* A trades row (part_003:867-872); listingId and txHash are not columns:
\* they record which settlement inserted the row (its listing and its
\* on-chain purchase).
TradeRow(r) ==
    [nftId |-> r.nft, encryptedBuyer |-> r.encryptedBuyer,
     encryptedSeller |-> r.seller, price |-> r.price, listingId |-> r.listingId,
     txHash |-> r.txHash]

\* atomicPoolBuy steps 3-8 and the commit (part_003:812-889). Inserting the
\* seller's row fails on the unique account_hash when the row exists by now.
ApbCommit(p) ==
    /\ pc[p] = "apbCommit"
    /\ LET r == req[p]
       IN  /\ rowLock' = ReleaseLocks(p)
           /\ IF r.sellerExisting = NoRow /\ poolBalances[r.seller] # NoRow
              THEN /\ Respond(p, "privateBuy", "Inconsistent:UniqueViolation", r.listingId)
                   /\ UNCHANGED <<poolBalances, poolTransactions, trades, nftOwner,
                                  listings>>
              ELSE /\ poolBalances' = CreditSeller(DebitBuyer(poolBalances, r), r)
                   /\ poolTransactions' =
                        BagAdd(BagAdd(poolTransactions,
                                      PoolTx(r.account, "nft_purchase", r.price,
                                             r.txHash, r.nft)),
                               PoolTx(r.seller, "nft_sale", r.price, r.txHash, r.nft))
                   /\ trades' = BagAdd(trades, TradeRow(r))
                   /\ nftOwner' = [nftOwner EXCEPT ![r.nft] = r.encryptedBuyer]
                   /\ listings' = deactivateListing(listings, r.listingId)
                   /\ Respond(p, "privateBuy", "LocallyCommitted", r.listingId)
    /\ UNCHANGED <<now, authVars, mintedCount, nftRows, collectionNfts, chainVars, opsStarted>>

\* atomicPoolBuy run statement by statement on the connection, outside
\* db.transaction: a statement that throws after the buyer's update leaves
\* the debit in place.
ApbFailNoRollback(p) ==
    /\ pc[p] \in {"apbLockBuyer", "apbLockSeller", "apbCommit"}
    /\ rowLock' = ReleaseLocks(p)
    /\ poolBalances' = IF pc[p] = "apbCommit" THEN DebitBuyer(poolBalances, req[p])
                       ELSE poolBalances
    /\ Respond(p, "privateBuy", "Inconsistent:DatabaseError", req[p].listingId)
    /\ UNCHANGED <<now, authVars, poolTransactions, listings, trades, nftOwner,
                   mintedCount, nftRows, collectionNfts, chainVars, opsStarted>>

\* A failed local commit answered by buying again: the transaction is
\* rolled back and the handler goes back to the relayer call
ApbFailRetry(p) ==
    /\ pc[p] \in {"apbLockBuyer", "apbLockSeller", "apbCommit"}
    /\ rowLock' = ReleaseLocks(p)
    /\ pc' = [pc EXCEPT ![p] = "pbChainBuy"]
    /\ req' = req
    /\ UNCHANGED <<now, authVars, dbVars, chainVars, opsStarted>>

\* A statement of the transaction throws (connection or database error):
\* drizzle rolls the transaction back and the route answers 500.
ApbFail(p) ==
    /\ pc[p] \in {"apbLockBuyer", "apbLockSeller", "apbCommit"}
    /\ rowLock' = ReleaseLocks(p)
    /\ Respond(p, "privateBuy", "Inconsistent:DatabaseError", req[p].listingId)
    /\ UNCHANGED <<now, authVars, dbVars, chainVars, opsStarted>>

\* A storage read of the private-buy route, or its deactivation of a stale
\* listing, is rejected (connection or database error): getNftById
\* (routes.ts:1038), getListingByNftId (1050), deactivateListing (1065) or
\* getPoolBalance (1077). The catch block answers 500 (routes.ts:1150-1158).
PbFail(p) ==
    /\ \/ pc[p] \in {"pbNft", "pbListing", "pbBalance"}
       \/ pc[p] = "deactivate" /\ req[p].route = "privateBuy"
    /\ Rejected(p, "privateBuy")
    /\ UNCHANGED <<now, authVars, dbVars, rowLock, chainVars, opsStarted>>

----------------------------------------------------------------------------
(* POST /api/pool/buy                                                      *)

\* routes.ts:1162-1185: storage.getNftById; the route asks for no
\* signature, and the handler keeps the owner it read
StartPoolBuy(p) ==
    \E a \in Accounts, buyer \in Accounts \cup {"X"}, n \in Nfts, rejected \in BOOLEAN :
        /\ CanStart(p)
        /\ opsStarted' = opsStarted + 1
        /\ IF rejected
           THEN Rejected(p, "poolBuy")
           ELSE /\ pc' = [pc EXCEPT ![p] = "plListing"]
                /\ req' = [req EXCEPT ![p] =
                             [ReqIdle EXCEPT !.route = "poolBuy", !.account = a,
                                             !.encryptedBuyer = buyer,
                                             !.owner = nftOwner[n], !.nft = n]]
        /\ UNCHANGED <<now, authVars, dbVars, rowLock, chainVars>>

\* routes.ts:1194-1197: the active listing of the nft
PlListing(p) ==
    /\ pc[p] = "plListing"
    /\ ReadListing(p, "plChainCheck")

\* routes.ts:1199-1219: the on-chain listing check and the own-NFT check
PlChainCheck(p) ==
    \E readOk \in BOOLEAN :
        /\ pc[p] = "plChainCheck"
        /\ IF ~checkOnChainListingStatus(req[p].nft, readOk)
           THEN /\ pc' = [pc EXCEPT ![p] = "deactivate"]
                /\ req' = [req EXCEPT ![p].result = "StaleListing"]
           ELSE IF req[p].owner = req[p].encryptedBuyer
           THEN Respond(p, "poolBuy", "OwnNft", req[p].listingId)
           ELSE /\ pc' = [pc EXCEPT ![p] = "plBalance"]
                /\ req' = req
        /\ UNCHANGED <<now, authVars, dbVars, rowLock, chainVars, opsStarted>>

\* routes.ts:1221-1238: the buyer's pool balance as the source of funds
PlBalance(p) ==
    /\ pc[p] = "plBalance"
    /\ LET r == req[p]
       IN  IF poolBalances[r.account] = NoRow
           THEN Respond(p, "poolBuy", "AccountNotFound", r.listingId)
           ELSE IF CountLess(poolBalances[r.account].balance, r.price)
           THEN Respond(p, "poolBuy", "InsufficientBalance", r.listingId)
           ELSE pc' = [pc EXCEPT ![p] = "plChainBuy"] /\ req' = req
    /\ UNCHANGED <<now, authVars, dbVars, rowLock, chainVars, opsStarted>>

\* routes.ts:1244-1256: buyNFTViaRelayer, as in the private-buy route
PlChainBuy(p) ==
    \E sent \in BOOLEAN, confirmed \in BOOLEAN :
        /\ pc[p] = "plChainBuy"
        /\ LET r == req[p]
               mined == sent /\ RelayerBuySucceeds(r.nft, r.price)
           IN  /\ IF mined
                  THEN /\ isListed' = [isListed EXCEPT ![r.nft] = FALSE]
                       /\ listingPrices' = [listingPrices EXCEPT ![r.nft] = 0]
                       /\ relayerOwns' = [relayerOwns EXCEPT ![r.nft] = TRUE]
                       /\ chainTxs' = chainTxs + 1
                       /\ UNCHANGED <<mintVars, veilxCollection>>
                  ELSE UNCHANGED chainVars
               /\ IF mined /\ confirmed
                  THEN /\ pc' = [pc EXCEPT ![p] = "plTrade"]
                       /\ req' = [req EXCEPT ![p].txHash = chainTxs + 1]
                  ELSE Respond(p, "poolBuy", "ChainTransactionFailed", r.listingId)
        /\ UNCHANGED <<now, authVars, dbVars, rowLock, opsStarted>>

\* routes.ts:1260-1266: storage.createTrade (part_003:331-339)
PlTrade(p) ==
    /\ pc[p] = "plTrade"
    /\ trades' = BagAdd(trades, TradeRow(req[p]))
    /\ pc' = [pc EXCEPT ![p] = "plOwner"]
    /\ UNCHANGED <<now, authVars, poolBalances, poolTransactions, listings, nftOwner,
                   mintedCount, nftRows, collectionNfts, rowLock, chainVars, req, opsStarted>>

\* routes.ts:1268-1269: storage.updateNftOwner (part_003:292-298); the
\* listing is deactivated next and the route answers 200
PlOwner(p) ==
    /\ pc[p] = "plOwner"
    /\ nftOwner' = [nftOwner EXCEPT ![req[p].nft] = req[p].encryptedBuyer]
    /\ pc' = [pc EXCEPT ![p] = "deactivate"]
    /\ req' = [req EXCEPT ![p].result = "PoolBought"]
    /\ UNCHANGED <<now, authVars, poolBalances, poolTransactions, listings, trades,
                   mintedCount, nftRows, collectionNfts, rowLock, chainVars, opsStarted>>

\* A storage call of the pool-buy route is rejected (connection or database
\* error): getListingByNftId (routes.ts:1194), getPoolBalance (1221),
\* deactivateListing of a stale listing (1209) or one of the three
\* statements after the purchase, createTrade (1260), updateNftOwner (1268)
\* and deactivateListing (1271). The catch block answers 500 and what was
\* written stays (routes.ts:1280-1287).
PlFail(p) ==
    /\ \/ pc[p] \in {"plListing", "plBalance", "plTrade", "plOwner"}
       \/ pc[p] = "deactivate" /\ req[p].route = "poolBuy"
    /\ Rejected(p, "poolBuy")
    /\ UNCHANGED <<now, authVars, dbVars, rowLock, chainVars, opsStarted>>

----------------------------------------------------------------------------
(* POST /api/buy                                                           *)

\* The listing ids a POST /api/buy body can carry
BodyListingIds == 1..MaxListings

\* routes.ts:916-934: the body and storage.getNftById; the route asks for no
\* signature, and the handler keeps the owner it read
StartBuy(p) ==
    \E n \in Nfts, listingId \in BodyListingIds, encryptedBuyer \in Accounts \cup {"X"},
       rejected \in BOOLEAN :
        /\ CanStart(p)
        /\ opsStarted' = opsStarted + 1
        /\ IF rejected
           THEN Rejected(p, "buy")
           ELSE /\ pc' = [pc EXCEPT ![p] = "buListing"]
                /\ req' = [req EXCEPT ![p] =
                             [ReqIdle EXCEPT !.route = "buy", !.nft = n,
                                             !.listingId = listingId,
                                             !.encryptedBuyer = encryptedBuyer,
                                             !.owner = nftOwner[n]]]
        /\ UNCHANGED <<now, authVars, dbVars, rowLock, chainVars>>

\* routes.ts:936-939: getListingByNftId and the test that the row it
\* returned is the listing the body names
BuListing(p) ==
    /\ pc[p] = "buListing"
    /\ \/ /\ ActiveListingIds(req[p].nft) = {}
          /\ Respond(p, "buy", "NotActive", 0)
       \/ \E i \in ActiveListingIds(req[p].nft) :
             IF i # req[p].listingId
             THEN Respond(p, "buy", "NotActive", 0)
             ELSE /\ pc' = [pc EXCEPT ![p] = "buChainCheck"]
                  /\ req' = [req EXCEPT ![p].seller = listings[i].encryptedSeller,
                                        ![p].price = listings[i].price]
    /\ UNCHANGED <<now, authVars, dbVars, rowLock, chainVars, opsStarted>>

\* routes.ts:942-960: the on-chain listing check and the own-NFT check
BuChainCheck(p) ==
    \E readOk \in BOOLEAN :
        /\ pc[p] = "buChainCheck"
        /\ IF ~checkOnChainListingStatus(req[p].nft, readOk)
           THEN /\ pc' = [pc EXCEPT ![p] = "deactivate"]
                /\ req' = [req EXCEPT ![p].result = "StaleListing"]
           ELSE IF req[p].owner = req[p].encryptedBuyer
           THEN Respond(p, "buy", "OwnNft", req[p].listingId)
           ELSE /\ pc' = [pc EXCEPT ![p] = "buTrade"]
                /\ req' = req
        /\ UNCHANGED <<now, authVars, dbVars, rowLock, chainVars, opsStarted>>

\* routes.ts:963-968: storage.createTrade (part_003:331-339); no purchase
\* on the chain stands behind the row
BuTrade(p) ==
    /\ pc[p] = "buTrade"
    /\ trades' = BagAdd(trades, TradeRow(req[p]))
    /\ pc' = [pc EXCEPT ![p] = "buOwner"]
    /\ UNCHANGED <<now, authVars, poolBalances, poolTransactions, listings, nftOwner,
                   mintedCount, nftRows, collectionNfts, rowLock, chainVars, req, opsStarted>>

\* routes.ts:971: storage.updateNftOwner (part_003:292-298); the listing is
\* deactivated next (974) and the route answers 200
BuOwner(p) ==
    /\ pc[p] = "buOwner"
    /\ nftOwner' = [nftOwner EXCEPT ![req[p].nft] = req[p].encryptedBuyer]
    /\ pc' = [pc EXCEPT ![p] = "deactivate"]
    /\ req' = [req EXCEPT ![p].result = "Bought"]
    /\ UNCHANGED <<now, authVars, poolBalances, poolTransactions, listings, trades,
                   mintedCount, nftRows, collectionNfts, rowLock, chainVars, opsStarted>>

\* A storage call of the route is rejected (connection or database error):
\* the catch block answers 500 and what was written stays (routes.ts:
\* 981-988)
BuFail(p) ==
    /\ \/ pc[p] \in {"buListing", "buTrade", "buOwner"}
       \/ pc[p] = "deactivate" /\ req[p].route = "buy"
    /\ Rejected(p, "buy")
    /\ UNCHANGED <<now, authVars, dbVars, rowLock, chainVars, opsStarted>>

----------------------------------------------------------------------------
(* POST /api/relayer/offer/accept                                          *)

\* The offers table and the offers of the contract are not state of the
\* model: the row getOfferById returns and the offer it names on the chain
\* are inputs of the steps that read them. POST /api/offers/record
\* (routes.ts:808-850) inserts the row its body describes, and makeOffer
\* (VeilXCollection.sol:229-262) takes an offer from any wallet.
OfferRows == {"none", "inactive", "active"}

\* routes.ts:710-729: the body and storage.getOfferById; the route asks for
\* no signature. The handler keeps the nft, the offerer and the amount of
\* the row.
StartOfferAccept(p) ==
    \E row \in OfferRows, n \in Nfts, encryptedOfferer \in Accounts \cup {"X"},
       amount \in Prices, rejected \in BOOLEAN :
        /\ CanStart(p)
        /\ opsStarted' = opsStarted + 1
        /\ IF rejected
           THEN Rejected(p, "offerAccept")
           ELSE IF row = "none"
           THEN Respond(p, "offerAccept", "NotFound", 0)
           ELSE IF row = "inactive"
           THEN Respond(p, "offerAccept", "NotActive", 0)
           ELSE /\ pc' = [pc EXCEPT ![p] = "oaNft"]
                /\ req' = [req EXCEPT ![p] =
                             [ReqIdle EXCEPT !.route = "offerAccept", !.nft = n,
                                             !.encryptedBuyer = encryptedOfferer,
                                             !.price = amount]]
        /\ UNCHANGED <<now, authVars, dbVars, rowLock, chainVars>>

\* routes.ts:732-740: storage.getNftById; the handler keeps the owner it
\* read as the seller of the trade
OaNft(p) ==
    /\ pc[p] = "oaNft"
    /\ pc' = [pc EXCEPT ![p] = "oaOwner"]
    /\ req' = [req EXCEPT ![p].seller = nftOwner[req[p].nft]]
    /\ UNCHANGED <<now, authVars, dbVars, rowLock, chainVars, opsStarted>>

\* routes.ts:743-749: isRelayerOwner
OaOwner(p) ==
    \E readOk \in BOOLEAN :
        /\ pc[p] = "oaOwner"
        /\ IF ~isRelayerOwner(req[p].nft, readOk)
           THEN Respond(p, "offerAccept", "NotRelayerOwned", 0)
           ELSE pc' = [pc EXCEPT ![p] = "oaChain"] /\ req' = req
        /\ UNCHANGED <<now, authVars, dbVars, rowLock, chainVars, opsStarted>>

\* routes.ts:752-762: acceptOfferViaRelayer (part_004:803-845). `sent` is
\* false when the getOffer read fails or reports an inactive offer, or when
\* the submission fails; `confirmed` is false when tx.wait() throws although
\* the transaction is mined. token is the token of the offer on the chain,
\* which the row's on_chain_offer_id names, and byRelayer tells whether the
\* relayer made that offer (makeOfferViaRelayer, routes.ts:583-646): the
\* offerer owns the token afterwards (VeilXCollection.sol:356-368).
OaChain(p) ==
    \E sent \in BOOLEAN, confirmed \in BOOLEAN, token \in Nfts, byRelayer \in BOOLEAN :
        /\ pc[p] = "oaChain"
        /\ LET mined == sent /\ RelayerAcceptSucceeds(token)
           IN  /\ IF mined
                  THEN /\ relayerOwns' = [relayerOwns EXCEPT ![token] = byRelayer]
                       /\ chainTxs' = chainTxs + 1
                       /\ UNCHANGED <<isListed, listingPrices, mintVars, veilxCollection>>
                  ELSE UNCHANGED chainVars
               /\ IF mined /\ confirmed
                  THEN /\ pc' = [pc EXCEPT ![p] = "oaTrade"]
                       /\ req' = [req EXCEPT ![p].txHash = chainTxs + 1]
                  ELSE Respond(p, "offerAccept", "ChainTransactionFailed", 0)
        /\ UNCHANGED <<now, authVars, dbVars, rowLock, opsStarted>>

\* routes.ts:767-772: storage.createTrade (part_003:331-339) with the
\* offerer as buyer, the owner read before as seller and the amount of the
\* offer row as price
OaTrade(p) ==
    /\ pc[p] = "oaTrade"
    /\ trades' = BagAdd(trades, TradeRow(req[p]))
    /\ pc' = [pc EXCEPT ![p] = "oaNftOwner"]
    /\ UNCHANGED <<now, authVars, poolBalances, poolTransactions, listings, nftOwner,
                   mintedCount, nftRows, collectionNfts, rowLock, chainVars, req, opsStarted>>

\* routes.ts:775: storage.updateNftOwner (part_003:292-298); a local
\* listing of the nft is left as it is
OaNftOwner(p) ==
    /\ pc[p] = "oaNftOwner"
    /\ nftOwner' = [nftOwner EXCEPT ![req[p].nft] = req[p].encryptedBuyer]
    /\ pc' = [pc EXCEPT ![p] = "oaOffers"]
    /\ UNCHANGED <<now, authVars, poolBalances, poolTransactions, listings, trades,
                   mintedCount, nftRows, collectionNfts, rowLock, chainVars, req, opsStarted>>

\* routes.ts:778-785: deactivateOffer and deactivateAllOffersForNft, which
\* write the offers table only, and the 200 response
OaOffers(p) ==
    /\ pc[p] = "oaOffers"
    /\ Respond(p, "offerAccept", "ok", 0)
    /\ UNCHANGED <<now, authVars, dbVars, rowLock, chainVars, opsStarted>>

\* A storage call of the route is rejected (connection or database error):
\* the catch block answers 500 and what was written stays (routes.ts:
\* 786-793)
OaFail(p) ==
    /\ pc[p] \in {"oaNft", "oaTrade", "oaNftOwner", "oaOffers"}
    /\ Rejected(p, "offerAccept")
    /\ UNCHANGED <<now, authVars, dbVars, rowLock, chainVars, opsStarted>>

----------------------------------------------------------------------------
(* IStorage.atomicPoolBuy called on its own: two settlements               *)

\* Four pool accounts and two nfts, so that two settlements can have a
\* buyer and a seller each and share none of them
PairAccounts == {"H1", "H2", "H3", "H4"}
PairNfts == {"n1", "n2"}

\* The settlement of slot p: its listing and its buyer
PairListing(p) == IF p = "r1" THEN 1 ELSE 2
PairBuyer(p) == IF p = "r1" THEN "H2" ELSE "H4"

\* The parameters atomicPoolBuy is called with by slot p (part_003:776-785):
\* nft, seller and price are those of the listing row, as the private-buy
\* route passes them, and txHash is that of the slot's own purchase
PairParams(ls, p) ==
    LET i == PairListing(p)
    IN  [ReqIdle EXCEPT !.route = "privateBuy", !.account = PairBuyer(p),
                        !.encryptedBuyer = PairBuyer(p), !.nft = ls[i].nftId,
                        !.listingId = i, !.seller = ls[i].encryptedSeller,
                        !.price = ls[i].price, !.txHash = i]

\* The tables before the two calls: buyer H2 holds 2 and buyer H4 holds 1,
\* seller H1 has no row yet and seller H3 holds 1; each nft belongs to the
\* seller of its latest listing
PairBalances0 ==
    [a \in PairAccounts |->
        CASE a = "H1" -> NoRow
          [] a = "H2" -> PoolRow(2, 2, 0)
          [] a = "H3" -> PoolRow(1, 1, 0)
          [] OTHER    -> PoolRow(1, 1, 0)]

PairOwner0(ls) ==
    [n \in PairNfts |-> IF ls[2].nftId = n THEN ls[2].encryptedSeller
                        ELSE ls[1].encryptedSeller]

\* A call of storage.atomicPoolBuy, up to its first statement
CallAtomicPoolBuy(p) ==
    /\ CanStart(p)
    /\ req[p].route = "none"
    /\ opsStarted' = opsStarted + 1
    /\ pc' = [pc EXCEPT ![p] = "apbLockBuyer"]
    /\ req' = [req EXCEPT ![p] = PairParams(listings, p)]
    /\ UNCHANGED <<now, authVars, dbVars, rowLock, chainVars>>

\* One atomicPoolBuy call run from its first statement to its commit or its
\* rollback with no other transaction in between (part_003:788-889), on the
\* tables db
Settle(db, r) ==
    LET buyerPoolBalance == db.poolBalances[r.account]
        rr == [r EXCEPT !.existing = buyerPoolBalance,
                        !.sellerExisting = db.poolBalances[r.seller]]
    IN  IF buyerPoolBalance = NoRow THEN db
        ELSE IF CountLess(buyerPoolBalance.balance, r.price) THEN db
        ELSE [poolBalances |-> CreditSeller(DebitBuyer(db.poolBalances, rr), rr),
              poolTransactions |->
                  BagAdd(BagAdd(db.poolTransactions,
                                PoolTx(r.account, "nft_purchase", r.price,
                                       r.txHash, r.nft)),
                         PoolTx(r.seller, "nft_sale", r.price, r.txHash, r.nft)),
              trades |-> BagAdd(db.trades, TradeRow(rr)),
              nftOwner |-> [db.nftOwner EXCEPT ![r.nft] = r.encryptedBuyer],
              listings |-> deactivateListing(db.listings, r.listingId)]

\* The answer of that call
SettleResult(db, r) ==
    IF db.poolBalances[r.account] = NoRow THEN "Inconsistent:AccountNotFound"
    ELSE IF CountLess(db.poolBalances[r.account].balance, r.price)
    THEN "Inconsistent:InsufficientBalance"
    ELSE "LocallyCommitted"

\* Two settlements in which each buyer is the seller of the other one's
\* listing: the parameters of slot p
CrossParams(ls, p) ==
    LET other == ls[3 - PairListing(p)].encryptedSeller
    IN  [PairParams(ls, p) EXCEPT !.account = other, !.encryptedBuyer = other]

\* That call of storage.atomicPoolBuy, up to its first statement
CallCrossPoolBuy(p) ==
    /\ CanStart(p)
    /\ req[p].route = "none"
    /\ opsStarted' = opsStarted + 1
    /\ pc' = [pc EXCEPT ![p] = "apbLockBuyer"]
    /\ req' = [req EXCEPT ![p] = CrossParams(listings, p)]
    /\ UNCHANGED <<now, authVars, dbVars, rowLock, chainVars>>

\* Transaction p waits for a row lock that transaction q holds: its SELECT
\* ... FOR UPDATE on the buyer's row (part_003:789-792) or on the seller's
\* existing row (part_003:805-810) is blocked
WaitsFor(p, q) ==
    LET row == IF pc[p] = "apbLockBuyer" THEN req[p].account ELSE req[p].seller
    IN  /\ pc[p] \in {"apbLockBuyer", "apbLockSeller"}
        /\ poolBalances[row] # NoRow
        /\ rowLock[row] = q

----------------------------------------------------------------------------
(* IStorage.createOrUpdatePoolBalance called on its own                    *)

\* The values of the parameter `type` (part_003:596)
PoolTxTypes == {"deposit", "withdraw", "mint_payment", "nft_purchase", "nft_sale"}

LedgerAmounts == {-1, 1, 3}

\* A call of storage.createOrUpdatePoolBalance with any arguments, up to its
\* first statement (part_003:592-605). A first statement that is rejected
\* (connection or database error) makes the call throw with no lock taken.
CallCoup(p) ==
    \E a \in Accounts, amt \in LedgerAmounts, t \in PoolTxTypes,
       rejected \in BOOLEAN :
        /\ CanStart(p)
        /\ IF rejected
           THEN Rejected(p, "storage") /\ rowLock' = rowLock
           ELSE CoupSelectInto(p, [ReqIdle EXCEPT !.route = "storage", !.type = t,
                                                  !.account = a, !.amount = amt])
        /\ opsStarted' = opsStarted + 1
        /\ UNCHANGED <<now, authVars, dbVars, chainVars>>

\* The call returns the row it wrote (part_003:641, 656)
CoupReturn(p) ==
    /\ pc[p] = "afterCoup"
    /\ req[p].route = "storage"
    /\ Respond(p, "storage", "ok", 0)
    /\ UNCHANGED <<now, authVars, dbVars, rowLock, chainVars, opsStarted>>

----------------------------------------------------------------------------
(* Deposits and ledger calls on decimal strings of any size               *)

MaxDeposits == 4     \* deposits explored per behaviour
MaxOffers == 2       \* offers made on the instance per behaviour

\* Balances before the first deposit: 0.00000000, 0.10000000, 2.00000000,
\* 39997893.58518364
DecimalPriors == {<<>>, <<0, 1000>>, <<0, 0, 2>>, <<8364, 5851, 7893, 3999>>}

\* Amounts deposited: 0.00000001 and 0.99531508
DecimalAmounts == {<<1>>, <<1508, 9953>>}

\* POST /api/pool/deposit with a decimal amount, up to the first statement
\* of createOrUpdatePoolBalance (routes.ts:1758-1775)
StartDecimalDeposit(p) ==
    \E a \in Accounts, amt \in DecimalAmounts, rejected \in BOOLEAN :
        /\ pc[p] = "idle"
        /\ opsStarted < MaxDeposits
        /\ IF rejected
           THEN Rejected(p, "deposit") /\ rowLock' = rowLock
           ELSE CoupSelectInto(p, [ReqIdle EXCEPT !.route = "deposit",
                                                  !.type = "deposit",
                                                  !.account = a, !.amount = amt,
                                                  !.txHash = 100])
        /\ opsStarted' = opsStarted + 1
        /\ UNCHANGED <<now, authVars, dbVars, chainVars>>

\* The rest of createOrUpdatePoolBalance (part_003:607-658) for a handler
\* whose row and amount are decimal strings
DecimalCoupApply(p) ==
    /\ pc[p] = "coupApply"
    /\ CoupCommit(p, CoupOutcomeOn(req[p].existing, req[p].amount, req[p].type,
                                   poolBalances[req[p].account] # NoRow))

\* Balances on record before the first ledger call: 2.00000000,
\* 1000000000.00000000 and 1000000000.00000005
LedgerPriors == {<<0, 0, 2>>, <<0, 0, 0, 0, 10>>, <<5, 0, 0, 0, 10>>}

\* Amounts of the ledger calls: 0.00000001 and 1000000000.00000005
LedgerDecimals == {<<1>>, <<5, 0, 0, 0, 10>>}

\* A call of storage.createOrUpdatePoolBalance with a decimal amount, up to
\* its first statement (part_003:592-605). A first statement that is rejected
\* (connection or database error) makes the call throw with no lock taken.
CallDecimalCoup(p) ==
    \E a \in Accounts, amt \in LedgerDecimals, t \in PoolTxTypes,
       rejected \in BOOLEAN :
        /\ CanStart(p)
        /\ IF rejected
           THEN Rejected(p, "storage") /\ rowLock' = rowLock
           ELSE CoupSelectInto(p, [ReqIdle EXCEPT !.route = "storage", !.type = t,
                                                  !.account = a, !.amount = amt])
        /\ opsStarted' = opsStarted + 1
        /\ UNCHANGED <<now, authVars, dbVars, chainVars>>

----------------------------------------------------------------------------
(* VeilXCollection.sol, an instance called by wallets directly            *)

\* Constructor arguments and callers of the instance
CtorTotalSupply == 2
CtorMintPrice   == 1
Creator         == "creator"
AddressZero     == "0x0"
Wallets         == {Creator, "w1", "w2"}
TokenArgs       == 0 .. CtorTotalSupply     \* tokenId arguments, 0 is invalid
OfferArgs       == 0 .. MaxOffers           \* offerId arguments, 0 is invalid
Values          == 0 .. 2                   \* msg.value and price arguments, wei

\* A slot of the offers mapping that was never written (VeilXCollection.sol:28-37)
NoOffer == [offerer |-> AddressZero, amount |-> 0, isActive |-> FALSE]

\* Storage after the constructor (VeilXCollection.sol:91-108); mappings hold
\* the zero value at every key and the contract holds no ETH.
Constructor ==
    [currentTokenId |-> 0,
     mintedCount    |-> 0,
     owners         |-> [t \in 1 .. CtorTotalSupply |-> AddressZero],
     isListed       |-> [t \in 1 .. CtorTotalSupply |-> FALSE],
     listingPrices  |-> [t \in 1 .. CtorTotalSupply |-> 0],
     sellers        |-> [t \in 1 .. CtorTotalSupply |-> AddressZero],
     currentOfferId |-> 0,
     offers         |-> [o \in 1 .. MaxOffers |-> NoOffer],
     tokenOffers    |-> [t \in 1 .. CtorTotalSupply |-> <<>>],
     balance        |-> 0]

\* Everything but the storage of the instance
marketVars == <<now, authVars, dbVars, rowLock, isListed, listingPrices,
                relayerOwns, chainTxs, mintVars, pc, req, opsStarted>>

\* require(tokenId > 0 && tokenId <= currentTokenId, "Invalid token ID")
ValidTokenId(tokenId) ==
    tokenId > 0 /\ tokenId <= veilxCollection.currentTokenId

\* require(offerId > 0 && offerId <= currentOfferId, "Invalid offer ID")
ValidOfferId(offerId) ==
    offerId > 0 /\ offerId <= veilxCollection.currentOfferId

\* The loop that finds the token of an offer (VeilXCollection.sol:344-354,
\* 314-324): the lowest token whose tokenOffers holds the id, or 0.
OfferTokenId(offerId) ==
    LET c == veilxCollection
        hits == {i \in 1 .. c.currentTokenId :
                    \E j \in DOMAIN c.tokenOffers[i] : c.tokenOffers[i][j] = offerId}
    IN  IF hits = {} THEN 0 ELSE CHOOSE i \in hits : \A k \in hits : i <= k

\* Sum of the amounts of a set of offers
RECURSIVE OfferAmounts(_)
OfferAmounts(ids) ==
    IF ids = {} THEN 0
    ELSE LET o == CHOOSE x \in ids : TRUE
         IN  veilxCollection.offers[o].amount + OfferAmounts(ids \ {o})

\* mint (VeilXCollection.sol:115-141): the excess goes back to the sender and
\* the mint price to the creator.
mint(sender, value) ==
    LET c == veilxCollection
        tokenId == c.currentTokenId + 1
        refund == IF value > CtorMintPrice THEN value - CtorMintPrice ELSE 0
    IN  /\ c.mintedCount < CtorTotalSupply
        /\ value >= CtorMintPrice
        /\ veilxCollection' =
             [c EXCEPT !.currentTokenId = tokenId,
                       !.mintedCount = @ + 1,
                       !.owners[tokenId] = sender,
                       !.balance = @ + value - refund - CtorMintPrice]
        /\ UNCHANGED marketVars

\* listNFT (VeilXCollection.sol:143-164)
listNFT(sender, tokenId, price) ==
    LET c == veilxCollection
    IN  /\ ValidTokenId(tokenId)
        /\ c.owners[tokenId] = sender
        /\ ~c.isListed[tokenId]
        /\ price > 0
        /\ veilxCollection' =
             [c EXCEPT !.isListed[tokenId] = TRUE,
                       !.listingPrices[tokenId] = price,
                       !.sellers[tokenId] = sender]
        /\ UNCHANGED marketVars

\* unlistNFT (VeilXCollection.sol:166-176)
unlistNFT(sender, tokenId) ==
    LET c == veilxCollection
    IN  /\ ValidTokenId(tokenId)
        /\ c.owners[tokenId] = sender
        /\ c.isListed[tokenId]
        /\ veilxCollection' =
             [c EXCEPT !.isListed[tokenId] = FALSE,
                       !.listingPrices[tokenId] = 0,
                       !.sellers[tokenId] = AddressZero]
        /\ UNCHANGED marketVars

\* buyNFT (VeilXCollection.sol:178-207): the excess goes back to the sender
\* and the sale price to the recorded seller.
buyNFT(sender, tokenId, value) ==
    LET c == veilxCollection
    IN  /\ ValidTokenId(tokenId)
        /\ c.isListed[tokenId]
        /\ value >= c.listingPrices[tokenId]
        /\ LET salePrice == c.listingPrices[tokenId]
               refund == IF value > salePrice THEN value - salePrice ELSE 0
           IN  veilxCollection' =
                 [c EXCEPT !.owners[tokenId] = sender,
                           !.isListed[tokenId] = FALSE,
                           !.listingPrices[tokenId] = 0,
                           !.sellers[tokenId] = AddressZero,
                           !.balance = @ + value - refund - salePrice]
        /\ UNCHANGED marketVars

\* transferNFT without require(!isListed[tokenId])
transferNFTListed(sender, tokenId, to) ==
    LET c == veilxCollection
    IN  /\ ValidTokenId(tokenId)
        /\ c.owners[tokenId] = sender
        /\ to # AddressZero
        /\ veilxCollection' = [c EXCEPT !.owners[tokenId] = to]
        /\ UNCHANGED marketVars

\* transferNFT (VeilXCollection.sol:209-227)
transferNFT(sender, tokenId, to) ==
    LET c == veilxCollection
    IN  /\ ValidTokenId(tokenId)
        /\ c.owners[tokenId] = sender
        /\ ~c.isListed[tokenId]
        /\ to # AddressZero
        /\ veilxCollection' = [c EXCEPT !.owners[tokenId] = to]
        /\ UNCHANGED marketVars

\* withdraw (VeilXCollection.sol:262-267)
withdraw(sender) ==
    LET c == veilxCollection
        balance == c.balance
    IN  /\ sender = Creator
        /\ balance > 0
        /\ veilxCollection' = [c EXCEPT !.balance = @ - balance]
        /\ UNCHANGED marketVars

\* makeOffer (VeilXCollection.sol:270-301): msg.value stays in the contract
makeOffer(sender, tokenId, value) ==
    LET c == veilxCollection
        offerId == c.currentOfferId + 1
    IN  /\ c.currentOfferId < MaxOffers
        /\ ValidTokenId(tokenId)
        /\ value > 0
        /\ veilxCollection' =
             [c EXCEPT !.currentOfferId = offerId,
                       !.offers[offerId] =
                           [offerer |-> sender, amount |-> value, isActive |-> TRUE],
                       !.tokenOffers[tokenId] = Append(@, offerId),
                       !.balance = @ + value]
        /\ UNCHANGED marketVars

\* cancelOffer (VeilXCollection.sol:303-330): transfer reverts the call when
\* the contract holds less than the refund.
cancelOffer(sender, offerId) ==
    LET c == veilxCollection
    IN  /\ ValidOfferId(offerId)
        /\ c.offers[offerId].isActive
        /\ c.offers[offerId].offerer = sender
        /\ LET refundAmount == c.offers[offerId].amount
           IN  /\ c.balance >= refundAmount
               /\ veilxCollection' =
                    [c EXCEPT !.offers[offerId].isActive = FALSE,
                              !.offers[offerId].amount = 0,
                              !.balance = @ - refundAmount]
        /\ UNCHANGED marketVars

\* acceptOffer (VeilXCollection.sol:333-392): the other active offers of the
\* token are refunded, then the sender is paid; any transfer the balance
\* cannot cover reverts the call.
acceptOffer(sender, offerId) ==
    LET c == veilxCollection
        tokenId == OfferTokenId(offerId)
    IN  /\ ValidOfferId(offerId)
        /\ c.offers[offerId].isActive
        /\ tokenId > 0
        /\ c.owners[tokenId] = sender
        /\ ~c.isListed[tokenId]
        /\ LET saleAmount == c.offers[offerId].amount
               newOwner == c.offers[offerId].offerer
               offerIds == c.tokenOffers[tokenId]
               refunded == {offerIds[i] : i \in DOMAIN offerIds} \ {offerId}
               active == {oid \in refunded : c.offers[oid].isActive}
           IN  /\ c.balance >= OfferAmounts(active) + saleAmount
               /\ veilxCollection' =
                    [c EXCEPT !.owners[tokenId] = newOwner,
                              !.offers =
                                  [o \in DOMAIN c.offers |->
                                      IF o = offerId \/ o \in active
                                      THEN [c.offers[o] EXCEPT !.isActive = FALSE,
                                                               !.amount = 0]
                                      ELSE c.offers[o]],
                              !.balance = @ - OfferAmounts(active) - saleAmount]
        /\ UNCHANGED marketVars

----------------------------------------------------------------------------
(* Specifications                                                          *)

\* One nft, minted to H1 and listed by H1 at price 1, locally and on-chain;
\* H2 has deposited 2; H1 has no pool account yet.
Init ==
    /\ now = 0
    /\ usedNonces = <<>>
    /\ nonceTimestamps = <<>>
    /\ lastAuth = [seq |-> 0, result |-> "none", wellFormed |-> FALSE,
                   expired |-> FALSE, replay |-> FALSE]
    /\ authorized = {}
    /\ poolBalances = [a \in Accounts |-> IF a = "H2" THEN PoolRow(2, 2, 0) ELSE NoRow]
    /\ poolTransactions = SetToBag({PoolTx("H2", "deposit", 2, 100, "none")})
    /\ listings = <<NewListing("n1", "H1", 1, TRUE)>>
    /\ trades = EmptyBag
    /\ nftOwner = [n \in Nfts |-> "H1"]
    /\ mintedCount = 0
    /\ nftRows = 0
    /\ collectionNfts = EmptyBag
    /\ rowLock = [r \in Accounts \cup {"collection"} |-> NoProc]
    /\ isListed = [n \in Nfts |-> TRUE]
    /\ listingPrices = [n \in Nfts |-> 1]
    /\ relayerOwns = [n \in Nfts |-> FALSE]
    /\ chainTxs = 0
    /\ deductedForMint = [a \in Accounts |-> 0]
    /\ mintedValue = [a \in Accounts |-> 0]
    /\ veilxCollection = Constructor
    /\ pc = [p \in Procs |-> "idle"]
    /\ req = [p \in Procs |-> ReqIdle]
    /\ opsStarted = 0

\* createOrUpdatePoolBalance and what the pool routes do after it
ContinueCoup(p) ==
    \/ CoupSelect(p) \/ CoupApply(p) \/ CoupFail(p)
    \/ CreateNft(p) \/ AfterCoup(p) \/ AfterCoupFail(p)

\* The relayer calls of the withdraw and pool-mint routes
ContinuePool(p) ==
    \/ WdChain(p) \/ PmDeduct(p) \/ PmMint(p)
    \/ ContinueCoup(p)

\* The collection pool mint after its authorization
ContinueCollectionPoolMint(p) ==
    \/ CpmCollection(p) \/ CpmBalance(p) \/ CpmDeduct(p) \/ CpmMint(p)
    \/ PmfcLockCollection(p) \/ PmfcDebit(p) \/ CpmFail(p)

\* createListing, and the relayer listing before it
ContinueListing(p) ==
    \/ RlNft(p) \/ RlOwner(p) \/ RlChain(p)
    \/ ClRead(p) \/ ClDeactivate(p) \/ ClInsert(p) \/ ClFail(p)

\* The relayer unlisting after its authorization
ContinueUnlist(p) ==
    \/ RuNft(p) \/ RuListing(p) \/ RuOwner(p)
    \/ RuChainOwner(p) \/ RuChainListed(p) \/ RuChainTx(p) \/ RuFail(p)

\* The private buy after its authorization
ContinueTrade(p) ==
    \/ DeactivateAndRespond(p)
    \/ PbNft(p) \/ PbListing(p)
    \/ PbChainCheck(p) \/ PbBalance(p) \/ PbChainBuy(p) \/ PbFail(p)
    \/ ApbLockBuyer(p) \/ ApbLockSeller(p) \/ ApbCommit(p) \/ ApbFail(p)

\* POST /api/buy after its first read
ContinueBuy(p) ==
    \/ BuListing(p) \/ BuChainCheck(p) \/ BuTrade(p) \/ BuOwner(p) \/ BuFail(p)

\* POST /api/relayer/offer/accept after its first read
ContinueOfferAccept(p) ==
    \/ OaNft(p) \/ OaOwner(p) \/ OaChain(p)
    \/ OaTrade(p) \/ OaNftOwner(p) \/ OaOffers(p) \/ OaFail(p)

\* The pool buy after its first read
ContinuePoolBuy(p) ==
    \/ PlListing(p) \/ PlChainCheck(p) \/ PlBalance(p) \/ PlChainBuy(p)
    \/ PlTrade(p) \/ PlOwner(p) \/ PlFail(p)

\* Wallets acting on the collection contract
ChainStep ==
    \/ ChainListByOwner \/ ChainUnlistByOwner
    \/ ChainBuyByWallet \/ ChainTransferToRelayer

\* Steps of handlers that are under way
Continue(p) ==
    \/ ContinuePool(p) \/ ContinueCollectionPoolMint(p)
    \/ MfcLockCollection(p) \/ MfcInsert(p) \/ MfcFail(p)
    \/ ContinueListing(p) \/ ContinueUnlist(p) \/ CancelFail(p)
    \/ Reconcile(p) \/ ReconcileFail(p)
    \/ ContinueTrade(p) \/ ContinuePoolBuy(p)
    \/ ContinueBuy(p) \/ ContinueOfferAccept(p)

\* The settlement engine: every route, any interleaving
Next ==
    \/ \E p \in Procs :
          \/ StartDeposit(p) \/ StartWithdraw(p) \/ StartPoolMint(p)
          \/ StartCollectionPoolMint(p)
          \/ StartCreateListing(p) \/ StartRelayerListing(p)
          \/ StartRelayerUnlist(p)
          \/ StartCancelListing(p) \/ StartReadNfts(p) \/ SearchNfts(p)
          \/ StartMintFromCollection(p)
          \/ StartPrivateBuy(p) \/ StartPoolBuy(p)
          \/ StartBuy(p) \/ StartOfferAccept(p)
          \/ Continue(p)
    \/ ChainStep

Spec == Init /\ [][Next]_vars

\* The pool routes: deposits, withdrawals and pool mints
NextPool ==
    \E p \in Procs :
        \/ StartDeposit(p) \/ StartWithdraw(p) \/ StartPoolMint(p)
        \/ ContinuePool(p)

SpecPool == Init /\ [][NextPool]_vars

\* The listing routes, with the wallets acting on the chain
NextListing ==
    \/ \E p \in Procs :
          \/ StartCreateListing(p) \/ StartRelayerListing(p)
          \/ StartRelayerUnlist(p) \/ StartCancelListing(p)
          \/ ContinueListing(p) \/ ContinueUnlist(p)
          \/ DeactivateAndRespond(p) \/ CancelFail(p)
    \/ ChainStep

SpecListing == Init /\ [][NextListing]_vars

\* The settlement pipeline on its own: private buys racing with deposits and
\* with relayer listings of the same nft
ContinueSettle(p) ==
    \/ CoupApply(p) \/ CoupFail(p) \/ AfterCoup(p) \/ AfterCoupFail(p)
    \/ ContinueListing(p)
    \/ ContinueTrade(p)

NextSettle ==
    \E p \in Procs :
        \/ StartDeposit(p) \/ StartRelayerListing(p) \/ StartPrivateBuy(p)
        \/ ContinueSettle(p)

SpecSettle == Init /\ [][NextSettle]_vars

\* Private buys racing with withdrawals
NextBuyWithdraw ==
    \E p \in Procs :
        \/ StartWithdraw(p) \/ StartPrivateBuy(p)
        \/ WdChain(p) \/ CoupSelect(p) \/ CoupApply(p) \/ CoupFail(p)
        \/ AfterCoup(p) \/ AfterCoupFail(p)
        \/ ContinueTrade(p)

SpecBuyWithdraw == Init /\ [][NextBuyWithdraw]_vars

\* The authorizer and the nonce store, with the clock and the sweep
NextAuth ==
    \/ AuthorizeCall \/ Tick \/ NonceCleanup

SpecAuth == Init /\ [][NextAuth]_vars

\* The pool ledger: createOrUpdatePoolBalance called with any arguments,
\* racing with the collection pool mint, which debits pool_balances in a
\* transaction of its own
ContinueLedger(p) ==
    \/ CoupApply(p) \/ CoupFail(p) \/ CoupReturn(p)
    \/ ContinueCollectionPoolMint(p)

NextLedger ==
    \E p \in Procs :
        \/ CallCoup(p) \/ StartCollectionPoolMint(p)
        \/ ContinueLedger(p)

SpecLedger == Init /\ [][NextLedger]_vars

\* Private buys on their own, with the scheduling the runtime gives them:
\* the event loop resumes every handler whose awaited call has returned, a
\* row lock is released when the transaction holding it ends, and a
\* transaction that cannot get its lock is aborted by the database (ApbFail).
NextTrade ==
    \E p \in Procs : StartPrivateBuy(p) \/ ContinueTrade(p)

SpecTrade ==
    Init /\ [][NextTrade]_vars /\ \A p \in Procs : WF_vars(ContinueTrade(p))

\* The two storage calls that mint from the collection, racing
NextMint ==
    \E p \in Procs :
        \/ StartMintFromCollection(p) \/ MfcLockCollection(p) \/ MfcInsert(p)
        \/ MfcFail(p)
        \/ StartCollectionPoolMint(p) \/ ContinueCollectionPoolMint(p)

SpecMint == Init /\ [][NextMint]_vars

\* Wallets calling the VeilXCollection instance
NextCollection ==
    \E sender \in Wallets :
        \/ \E value \in Values : mint(sender, value)
        \/ \E tokenId \in TokenArgs, price \in Values : listNFT(sender, tokenId, price)
        \/ \E tokenId \in TokenArgs : unlistNFT(sender, tokenId)
        \/ \E tokenId \in TokenArgs, value \in Values : buyNFT(sender, tokenId, value)
        \/ \E tokenId \in TokenArgs, to \in Wallets \cup {AddressZero} :
              transferNFT(sender, tokenId, to)
        \/ withdraw(sender)
        \/ \E tokenId \in TokenArgs, value \in Values : makeOffer(sender, tokenId, value)
        \/ \E offerId \in OfferArgs : cancelOffer(sender, offerId)
        \/ \E offerId \in OfferArgs : acceptOffer(sender, offerId)

SpecCollection == Init /\ [][NextCollection]_vars

\* The read paths, with listings made and cancelled locally and on the chain
ContinueRead(p) ==
    \/ ClRead(p) \/ ClDeactivate(p) \/ ClInsert(p) \/ ClFail(p)
    \/ DeactivateAndRespond(p) \/ CancelFail(p)
    \/ Reconcile(p) \/ ReconcileFail(p)
    \/ ContinueBuy(p)

NextRead ==
    \/ \E p \in Procs :
          \/ StartReadNfts(p) \/ SearchNfts(p)
          \/ StartCreateListing(p) \/ StartCancelListing(p)
          \/ StartBuy(p)
          \/ ContinueRead(p)
    \/ ChainStep

SpecRead == Init /\ [][NextRead]_vars

\* The read paths while wallets act on the chain and the relayer accepts
\* offers on the tokens it holds
NextOffer ==
    \/ \E p \in Procs :
          \/ StartReadNfts(p) \/ SearchNfts(p) \/ StartOfferAccept(p)
          \/ Reconcile(p) \/ ReconcileFail(p) \/ DeactivateAndRespond(p)
          \/ ContinueOfferAccept(p)
    \/ ChainStep

SpecOffer == Init /\ [][NextOffer]_vars

\* Two atomicPoolBuy calls on two listings, with two buyers and two sellers,
\* in any interleaving; the second listing is of either nft
InitPair ==
    \E price1 \in Prices, price2 \in Prices, n \in PairNfts :
        LET ls == <<NewListing("n1", "H1", price1, TRUE), NewListing(n, "H3", price2, TRUE)>>
        IN  /\ now = 0
            /\ usedNonces = <<>>
            /\ nonceTimestamps = <<>>
            /\ lastAuth = [seq |-> 0, result |-> "none", wellFormed |-> FALSE,
                           expired |-> FALSE, replay |-> FALSE]
            /\ authorized = {}
            /\ poolBalances = PairBalances0
            /\ poolTransactions = EmptyBag
            /\ listings = ls
            /\ trades = EmptyBag
            /\ nftOwner = PairOwner0(ls)
            /\ mintedCount = 0
            /\ nftRows = 0
            /\ collectionNfts = EmptyBag
            /\ rowLock = [r \in PairAccounts \cup {"collection"} |-> NoProc]
            /\ isListed = [m \in PairNfts |-> TRUE]
            /\ listingPrices = [m \in PairNfts |-> 1]
            /\ relayerOwns = [m \in PairNfts |-> TRUE]
            /\ chainTxs = 2
            /\ deductedForMint = [a \in DOMAIN poolBalances |-> 0]
            /\ mintedValue = [a \in DOMAIN poolBalances |-> 0]
            /\ veilxCollection = Constructor
            /\ pc = [p \in Procs |-> "idle"]
            /\ req = [p \in Procs |-> ReqIdle]
            /\ opsStarted = 0

NextPair ==
    \E p \in Procs :
        \/ CallAtomicPoolBuy(p)
        \/ ApbLockBuyer(p) \/ ApbLockSeller(p) \/ ApbCommit(p)

SpecPair == InitPair /\ [][NextPair]_vars

\* Private buys with their signed payloads
NextSigned ==
    \E p \in Procs : StartSignedPrivateBuy(p) \/ ContinueTrade(p)

SpecSigned == Init /\ [][NextSigned]_vars

\* Two atomicPoolBuy calls, H2 buying n1 from H1 while H1 buys n2 from H2;
\* both accounts have a row. A transaction may be aborted by the database.
InitCross ==
    \E price1 \in Prices, price2 \in Prices, b1 \in 1..2, b2 \in 1..2 :
        LET ls == <<NewListing("n1", "H1", price1, TRUE), NewListing("n2", "H2", price2, TRUE)>>
        IN  /\ now = 0
            /\ usedNonces = <<>>
            /\ nonceTimestamps = <<>>
            /\ lastAuth = [seq |-> 0, result |-> "none", wellFormed |-> FALSE,
                           expired |-> FALSE, replay |-> FALSE]
            /\ authorized = {}
            /\ poolBalances = [a \in Accounts |->
                                  IF a = "H1" THEN PoolRow(b1, b1, 0)
                                  ELSE PoolRow(b2, b2, 0)]
            /\ poolTransactions = EmptyBag
            /\ listings = ls
            /\ trades = EmptyBag
            /\ nftOwner = PairOwner0(ls)
            /\ mintedCount = 0
            /\ nftRows = 0
            /\ collectionNfts = EmptyBag
            /\ rowLock = [r \in Accounts \cup {"collection"} |-> NoProc]
            /\ isListed = [m \in PairNfts |-> TRUE]
            /\ listingPrices = [m \in PairNfts |-> 1]
            /\ relayerOwns = [m \in PairNfts |-> TRUE]
            /\ chainTxs = 2
            /\ deductedForMint = [a \in DOMAIN poolBalances |-> 0]
            /\ mintedValue = [a \in DOMAIN poolBalances |-> 0]
            /\ veilxCollection = Constructor
            /\ pc = [p \in Procs |-> "idle"]
            /\ req = [p \in Procs |-> ReqIdle]
            /\ opsStarted = 0

NextCross ==
    \E p \in Procs :
        \/ CallCrossPoolBuy(p)
        \/ ApbLockBuyer(p) \/ ApbLockSeller(p) \/ ApbCommit(p) \/ ApbFail(p)

SpecCross == InitCross /\ [][NextCross]_vars

\* Pool buys racing with private buys of the same nft
NextPoolBuy ==
    \E p \in Procs :
        \/ StartPoolBuy(p) \/ StartPrivateBuy(p)
        \/ ContinuePoolBuy(p) \/ ContinueTrade(p)

SpecPoolBuy == Init /\ [][NextPoolBuy]_vars

\* Deposits on decimal strings: H2 starts with one deposit of any of the
\* prior balances on record, H1 with no account
InitDecimal ==
    \E prior \in DecimalPriors :
        /\ now = 0
        /\ usedNonces = <<>>
        /\ nonceTimestamps = <<>>
        /\ lastAuth = [seq |-> 0, result |-> "none", wellFormed |-> FALSE,
                       expired |-> FALSE, replay |-> FALSE]
        /\ authorized = {}
        /\ poolBalances = [a \in Accounts |->
                              IF a = "H2" THEN PoolRow(prior, prior, <<>>) ELSE NoRow]
        /\ poolTransactions = SetToBag({PoolTx("H2", "deposit", prior, 100, "none")})
        /\ listings = <<NewListing("n1", "H1", 1, TRUE)>>
        /\ trades = EmptyBag
        /\ nftOwner = [n \in Nfts |-> "H1"]
        /\ mintedCount = 0
        /\ nftRows = 0
        /\ collectionNfts = EmptyBag
        /\ rowLock = [r \in Accounts \cup {"collection"} |-> NoProc]
        /\ isListed = [n \in Nfts |-> TRUE]
        /\ listingPrices = [n \in Nfts |-> 1]
        /\ relayerOwns = [n \in Nfts |-> FALSE]
        /\ chainTxs = 0
        /\ deductedForMint = [a \in Accounts |-> 0]
        /\ mintedValue = [a \in Accounts |-> 0]
        /\ veilxCollection = Constructor
        /\ pc = [p \in Procs |-> "idle"]
        /\ req = [p \in Procs |-> ReqIdle]
        /\ opsStarted = 0

\* Deposits of decimal amounts
NextDecimal ==
    \E p \in Procs :
        \/ StartDecimalDeposit(p) \/ DecimalCoupApply(p) \/ CoupFail(p)
        \/ AfterCoup(p) \/ AfterCoupFail(p)

SpecDecimal == InitDecimal /\ [][NextDecimal]_vars

\* Ledger calls on decimal strings: H2 starts with any of the prior balances
\* on record, H1 with no account
InitDecimalLedger ==
    \E prior \in LedgerPriors :
        /\ now = 0
        /\ usedNonces = <<>>
        /\ nonceTimestamps = <<>>
        /\ lastAuth = [seq |-> 0, result |-> "none", wellFormed |-> FALSE,
                       expired |-> FALSE, replay |-> FALSE]
        /\ authorized = {}
        /\ poolBalances = [a \in Accounts |->
                              IF a = "H2" THEN PoolRow(prior, prior, <<>>) ELSE NoRow]
        /\ poolTransactions = SetToBag({PoolTx("H2", "deposit", prior, 100, "none")})
        /\ listings = <<NewListing("n1", "H1", 1, TRUE)>>
        /\ trades = EmptyBag
        /\ nftOwner = [n \in Nfts |-> "H1"]
        /\ mintedCount = 0
        /\ nftRows = 0
        /\ collectionNfts = EmptyBag
        /\ rowLock = [r \in Accounts \cup {"collection"} |-> NoProc]
        /\ isListed = [n \in Nfts |-> TRUE]
        /\ listingPrices = [n \in Nfts |-> 1]
        /\ relayerOwns = [n \in Nfts |-> FALSE]
        /\ chainTxs = 0
        /\ deductedForMint = [a \in Accounts |-> 0]
        /\ mintedValue = [a \in Accounts |-> 0]
        /\ veilxCollection = Constructor
        /\ pc = [p \in Procs |-> "idle"]
        /\ req = [p \in Procs |-> ReqIdle]
        /\ opsStarted = 0

\* Calls of createOrUpdatePoolBalance with decimal amounts
NextDecimalLedger ==
    \E p \in Procs :
        \/ CallDecimalCoup(p) \/ DecimalCoupApply(p) \/ CoupFail(p) \/ CoupReturn(p)

SpecDecimalLedger == InitDecimalLedger /\ [][NextDecimalLedger]_vars

----------------------------------------------------------------------------
(* Properties of the ledger (SpecPool), of the listings (SpecListing) and  *)
(* of the settlement (SpecSettle)                                          *)

RECURSIVE SetSum(_, _)
SetSum(f, S) ==
    IF S = {} THEN 0
    ELSE LET x == CHOOSE y \in S : TRUE IN f[x] + SetSum(f, S \ {x})

\* Sum of pool_balances.balance over all rows
TotalBalance(balances) ==
    SetSum([a \in Accounts |-> IF balances[a] = NoRow THEN 0 ELSE balances[a].balance],
           Accounts)

\* Number of rows of a table that satisfy a filter given as a set of rows
RowCount(table, rows) == SetSum([x \in rows |-> CopiesIn(x, table)], rows)

TradesOfListing(l) == RowCount(trades, {t \in BagToSet(trades) : t.listingId = l})
TradesOfTx(h) == RowCount(trades, {t \in BagToSet(trades) : t.txHash = h})
PoolTxsOfTx(type, h) ==
    RowCount(poolTransactions,
             {t \in BagToSet(poolTransactions) : t.type = type /\ t.txHash = h})

\* Request p completes atomicPoolBuy successfully in this step
Commits(p) == pc[p] = "apbCommit" /\ req'[p].result = "LocallyCommitted"

\* C1: under every interleaving of deposits, withdrawals, mint payments,
\* purchase debits and sale credits, every pool account's balance is >= 0 in
\* every reachable state.
C1_BalanceNonNegative ==
    \A a \in Accounts : poolBalances[a] # NoRow => poolBalances[a].balance >= 0

\* C3: a successful settlement commit leaves the sum of all pool balances
\* unchanged, whoever the buyer account and the seller account are, the
\* buyer's account being the listing's seller account included.
C3_Conservation ==
    [][\A p \in Procs :
          Commits(p) => TotalBalance(poolBalances') = TotalBalance(poolBalances)]_vars

\* C4: a successful trade at price P decreases the buyer's balance by exactly
\* P, increases the seller's balance by exactly P (creating the seller's
\* account with balance P if there was none), adds exactly one trades row for
\* the asset and leaves the listing inactive.
C4_TradeEffect ==
    [][\A p \in Procs :
          Commits(p) =>
            LET r == req[p]
                sellerBefore == IF poolBalances[r.seller] = NoRow THEN 0
                                ELSE poolBalances[r.seller].balance
            IN  /\ poolBalances'[r.account].balance =
                      poolBalances[r.account].balance - r.price
                /\ poolBalances'[r.seller] # NoRow
                /\ poolBalances'[r.seller].balance = sellerBefore + r.price
                /\ trades' = BagAdd(trades, TradeRow(r))
                /\ ~listings'[r.listingId].isActive]_vars

\* C5: of the trades that target the same Active listing, racing in any
\* interleaving, one reaches LocallyCommitted and the others fail: no more
\* than one trades row is ever recorded for a listing.
C5_OneTradePerListing == \A l \in ListingIds : TradesOfListing(l) <= 1

\* C6: the local settlement commit is all-or-nothing. In every reachable
\* state the purchase record, the sale record and the trades row of an
\* on-chain purchase are all present or all absent, and the listing of a
\* recorded trade is inactive. A step of atomicPoolBuy either commits, and
\* then buyer debit, seller credit, both pool-transaction records, the trades
\* row, the owner pointer and the listing deactivation all take effect, or it
\* leaves balances, records, trades, listings and the owner pointer as they
\* were.
C6_Visible ==
    /\ \A h \in 1..chainTxs :
          /\ PoolTxsOfTx("nft_purchase", h) = TradesOfTx(h)
          /\ PoolTxsOfTx("nft_sale", h) = TradesOfTx(h)
          /\ TradesOfTx(h) <= 1
    /\ \A t \in BagToSet(trades) : ~listings[t.listingId].isActive

C6_Step ==
    \A p \in Procs :
        (pc[p] \in {"apbLockBuyer", "apbLockSeller", "apbCommit"} /\ pc'[p] # pc[p]) =>
            IF req'[p].result = "LocallyCommitted"
            THEN LET r == req[p]
                     sellerBefore == IF poolBalances[r.seller] = NoRow THEN 0
                                     ELSE poolBalances[r.seller].balance
                 IN  /\ poolBalances'[r.account].totalSpent =
                           poolBalances[r.account].totalSpent + r.price
                     /\ r.account # r.seller =>
                           poolBalances'[r.account].balance =
                               poolBalances[r.account].balance - r.price
                     /\ poolBalances'[r.seller] # NoRow
                     /\ poolBalances'[r.seller].balance = sellerBefore + r.price
                     /\ poolTransactions' =
                           BagAdd(BagAdd(poolTransactions,
                                         PoolTx(r.account, "nft_purchase", r.price,
                                                r.txHash, r.nft)),
                                  PoolTx(r.seller, "nft_sale", r.price, r.txHash, r.nft))
                     /\ trades' = BagAdd(trades, TradeRow(r))
                     /\ nftOwner'[r.nft] = r.encryptedBuyer
                     /\ ~listings'[r.listingId].isActive
            ELSE UNCHANGED <<poolBalances, poolTransactions, trades, listings, nftOwner>>

C6_AllOrNothing == []C6_Visible /\ [][C6_Step]_vars

\* C6 witness: one settlement is committed and another failed inside
\* atomicPoolBuy
C6_Witness ==
    \E p, q \in Procs :
        /\ req[p].result = "LocallyCommitted"
        /\ req[q].result \in {"Inconsistent:DatabaseError",
                              "Inconsistent:UniqueViolation"}
        /\ trades # EmptyBag

\* C7: in every reachable state there is at most one Active listing per nft.
C7_AtMostOneActive == \A n \in Nfts : Cardinality(ActiveListingIds(n)) <= 1

\* C8: createListing for an nft that has an Active listing fails with
\* AlreadyListed and leaves the existing listing unchanged: a call that found
\* an Active listing goes on only by answering AlreadyListed, the listings
\* table untouched.
C8_AlreadyListed ==
    [][\A p \in Procs :
          (pc[p] = "clDeactivate" /\ pc'[p] # pc[p]) =>
              (req'[p].result = "AlreadyListed" /\ listings' = listings)]_vars

----------------------------------------------------------------------------
(* Properties of the authorizer, checked under SpecAuth                    *)

\* C2: for every (signer, nonce) pair authorize succeeds at most once, also
\* across nonce sweeps and for any expiresAt: no call succeeds for a pair
\* that an earlier call was already authorized with.
C2_AuthorizeAtMostOnce == ~(lastAuth.result = "ok" /\ lastAuth.replay)

\* C9: a request with the signer's own account hash, a correct signature and
\* a nonce never used before, whose expiresAt is in the past, is rejected
\* with Expired and with no other error.
C9_ExpiredRejectedAsExpired ==
    (lastAuth.wellFormed /\ lastAuth.expired /\ ~lastAuth.replay)
        => lastAuth.result = "Expired"

\* C10: an authorize call that fails, for whichever reason, leaves the nonce
\* store and every pool balance unchanged; the store changes only on a call
\* that succeeds.
C10_FailedAuthorizeChangesNothing ==
    [][(lastAuth'.seq # lastAuth.seq /\ lastAuth'.result # "ok")
          => /\ usedNonces' = usedNonces
             /\ nonceTimestamps' = nonceTimestamps
             /\ poolBalances' = poolBalances]_vars

\* C10 witness: a replay was rejected while the store held the nonce
C10_Witness ==
    /\ lastAuth.result = "ReplayDetected"
    /\ usedNonces # <<>>
    /\ nonceTimestamps # <<>>

\* The (signer, nonce) pairs a nonce store holds
NoncePairs(store) == {k \in (DOMAIN store) \X Nonces : k[2] \in store[k[1]]}

\* C11: of several requests carrying the same (signer, nonce) that are
\* processed concurrently, one consumes the nonce and the others are
\* rejected. Calls are concurrent when they fall inside the retention window
\* of the store: every call that succeeds records exactly one pair that the
\* store did not hold, and no call succeeds for a pair already authorized.
C11_TestAndSet ==
    [][(lastAuth'.seq # lastAuth.seq) =>
          /\ lastAuth'.result = "ok" =>
                \E k \in SignersLower \X Nonces :
                    /\ k \notin NoncePairs(usedNonces)
                    /\ NoncePairs(usedNonces') = NoncePairs(usedNonces) \cup {k}
                    /\ k \in DOMAIN nonceTimestamps'
          /\ (lastAuth'.replay /\ now <= NONCE_EXPIRY_MS * 2) =>
                lastAuth'.result # "ok"]_vars

\* C11 witness: a second well-formed request with the same pair arrived at
\* the clock reading of the first and was rejected
C11_Witness ==
    /\ now = 0
    /\ lastAuth.wellFormed
    /\ lastAuth.replay
    /\ lastAuth.result = "ReplayDetected"

----------------------------------------------------------------------------
(* Properties of the private-buy pipeline, checked under SpecSettle and,   *)
(* against withdrawals, under SpecBuyWithdraw                              *)

\* C12: when the on-chain purchase of a trade fails, the trade ends with
\* ChainTransactionFailed, no pool balance, pool-transaction, listing, trade
\* or ownership row is changed, and the purchase is not submitted again: the
\* handler is over after the failure, and a handler whose purchase succeeded
\* never comes back to the purchase step.
C12_ChainFailureAborts ==
    [][\A p \in Procs :
          /\ (pc[p] = "pbChainBuy" /\ pc'[p] # pc[p]) =>
                \/ /\ pc'[p] = "apbLockBuyer"
                   /\ chainTxs' = chainTxs + 1
                   /\ UNCHANGED dbVars
                \/ /\ pc'[p] = "idle"
                   /\ req'[p].result = "ChainTransactionFailed"
                   /\ UNCHANGED dbVars
          /\ (pc[p] \in {"apbLockBuyer", "apbLockSeller", "apbCommit"}) =>
                pc'[p] # "pbChainBuy"]_vars

\* C12 witness: a private buy ended with ChainTransactionFailed
C12_Witness ==
    \E p \in Procs :
        /\ pc[p] = "idle"
        /\ req[p].route = "privateBuy"
        /\ req[p].result = "ChainTransactionFailed"

\* C13: when at validation time the asset is not listed on-chain, the trade
\* goes to the deactivation of its local listing and to nothing else: it
\* ends with StaleListing and the listing inactive, or, when the database
\* rejects the deactivation, with the internal error and the listings as
\* they were. Either way no purchase is submitted to the chain and no pool
\* balance, pool-transaction, trade or ownership row is changed.
C13_StaleListingAborts ==
    [][\A p \in Procs :
          /\ (pc[p] = "pbChainCheck" /\ pc'[p] # pc[p] /\ ~isListed[req[p].nft]) =>
                /\ pc'[p] = "deactivate"
                /\ req'[p].result = "StaleListing"
                /\ UNCHANGED <<chainVars, poolBalances, poolTransactions, trades,
                               nftOwner>>
          /\ (pc[p] = "deactivate" /\ req[p].route = "privateBuy" /\ pc'[p] # pc[p]) =>
                /\ pc'[p] = "idle"
                /\ req'[p].result \in {"StaleListing", "DatabaseError"}
                /\ req'[p].result = "StaleListing" =>
                      ~listings'[req[p].listingId].isActive
                /\ req'[p].result = "DatabaseError" => listings' = listings
                /\ UNCHANGED <<chainVars, poolBalances, poolTransactions, trades,
                               nftOwner>>]_vars

\* C13 witness: a private buy ended with StaleListing while the asset was
\* not listed on-chain, its local listing now inactive
C13_Witness ==
    \E p \in Procs :
        /\ pc[p] = "idle"
        /\ req[p].route = "privateBuy"
        /\ req[p].result = "StaleListing"
        /\ ~listings[req[p].listingId].isActive
        /\ \A n \in Nfts : ~isListed[n]

\* C14: every ledger error of a trade is raised before its on-chain purchase
\* is submitted: once the purchase has been submitted, the trade cannot fail
\* with InsufficientBalance or AccountNotFound, whatever else happens to the
\* buyer's account meanwhile.
C14_NoLedgerErrorAfterChainWrite ==
    [][\A p \in Procs :
          (pc[p] \in {"apbLockBuyer", "apbLockSeller", "apbCommit"} /\ pc'[p] = "idle")
              => req'[p].result \notin {"Inconsistent:InsufficientBalance",
                                        "Inconsistent:AccountNotFound"}]_vars

----------------------------------------------------------------------------
(* Properties of the pool ledger, checked under SpecPool, and of the read  *)
(* path, checked under SpecRead                                            *)

\* Sum of the amounts of the nft_sale records of pool_transactions for an
\* account: the sale proceeds credited to it
SaleProceeds(a) ==
    LET rows == {t \in BagToSet(poolTransactions) :
                    t.accountHash = a /\ t.type = "nft_sale"}
    IN  SetSum([t \in rows |-> t.amount * CopiesIn(t, poolTransactions)], rows)

\* C15: in every reachable state and for every account, balance =
\* totalDeposited - totalSpent + the sale proceeds credited to the account,
\* after any sequence of deposits, withdrawals, mint payments, purchases and
\* sales.
C15_BalanceIdentity ==
    \A a \in Accounts :
        poolBalances[a] # NoRow =>
            poolBalances[a].balance =
                poolBalances[a].totalDeposited - poolBalances[a].totalSpent
                    + SaleProceeds(a)

\* The balance of an account, 0 while it has no row
BalanceOf(balances, a) == IF balances[a] = NoRow THEN 0 ELSE balances[a].balance

\* C16: concurrent credits and debits on one account serialize, credits
\* issued while the account has no row yet included. Every call of
\* createOrUpdatePoolBalance that succeeds moves the balance, as it is when
\* the call commits, by exactly its amount (no lost update), and no credit
\* is rejected: a credit is accepted wherever it stands in a serial order.
C16_Serializable ==
    [][\A p \in Procs :
          (pc[p] = "coupApply" /\ pc'[p] # pc[p]) =>
              LET r == req[p]
              IN  /\ pc'[p] = "afterCoup" =>
                        BalanceOf(poolBalances', r.account) =
                            BalanceOf(poolBalances, r.account)
                                + (IF IsCredit(r.type) THEN r.amount ELSE 0 - r.amount)
                  /\ IsCredit(r.type) => pc'[p] = "afterCoup"]_vars

\* Number of pool_transactions records for an account, kind and amount
RecordsOf(table, a, type, amount) ==
    RowCount(table, {t \in BagToSet(table) :
                        t.accountHash = a /\ t.type = type /\ t.amount = amount})

\* C19: every credit or debit applied to a pool balance is accompanied by
\* exactly one pool-transaction record for that account, kind and amount,
\* also when the operation fails part-way: a deposit, withdraw or pool-mint
\* handler that has committed its balance change ends, whichever way, with
\* one more record for its account, kind and amount and no other change of
\* the records.
C19_OneRecordPerChange ==
    [][\A p \in Procs :
          (pc[p] \in {"afterCoup", "recordTx"} /\ pc'[p] = "idle") =>
              LET r == req[p]
              IN  /\ RecordsOf(poolTransactions', r.account, r.type, r.amount) =
                        RecordsOf(poolTransactions, r.account, r.type, r.amount) + 1
                  /\ \E t \in BagToSet(poolTransactions') :
                        poolTransactions' = BagAdd(poolTransactions, t)]_vars

\* C20: reconcile, run on a listing that was read as Active, deactivates
\* it and returns no listing exactly when the chain reports the nft as not
\* listed, and otherwise returns the listing unchanged; it never writes to
\* the chain and never changes balances, pool transactions, trades or
\* ownership.
C20_Reconcile ==
    [][\A p \in Procs :
          /\ (pc[p] = "reconcile" /\ pc'[p] # pc[p]) =>
                /\ IF ~isListed[req[p].nft]
                   THEN pc'[p] = "deactivate" /\ req'[p].result = "Reconciled"
                   ELSE pc'[p] = "idle" /\ req'[p].result = "Listed"
                /\ listings' = listings
                /\ UNCHANGED <<chainVars, poolBalances, poolTransactions, trades,
                               nftOwner>>
          /\ (pc[p] = "deactivate" /\ req[p].route = "read" /\ pc'[p] # pc[p]) =>
                /\ listings' = deactivateListing(listings, req[p].listingId)
                /\ req'[p].result = "Reconciled"
                /\ UNCHANGED <<chainVars, poolBalances, poolTransactions, trades,
                               nftOwner>>]_vars

----------------------------------------------------------------------------
(* Contract of createOrUpdatePoolBalance, checked under SpecLedger         *)

\* C17: a credit of kind deposit or nft_sale to an absent account creates
\* the account with balance equal to the amount; a debit (withdraw,
\* mint_payment, nft_purchase) against an absent account fails with
\* AccountNotFound and creates no account row; no operation ever deletes an
\* account. The first two parts are about calls whose statements the
\* database executes: a call it rejects changes no row.
C17_AbsentAccount ==
    [][/\ \A a \in Accounts : poolBalances[a] # NoRow => poolBalances'[a] # NoRow
       /\ \A p \in Procs :
             (/\ pc[p] \in {"coupApply", "pmfcDebit"}
              /\ req'[p].result = "DatabaseError") => poolBalances' = poolBalances
       /\ \A p \in Procs :
             (/\ pc[p] = "coupApply"
              /\ pc'[p] # pc[p]
              /\ req'[p].result # "DatabaseError"
              /\ poolBalances[req[p].account] = NoRow) =>
                 LET r == req[p]
                 IN  IF IsCredit(r.type)
                     THEN /\ pc'[p] = "afterCoup"
                          /\ poolBalances'[r.account] # NoRow
                          /\ poolBalances'[r.account].balance = r.amount
                     ELSE /\ pc'[p] = "idle"
                          /\ req'[p].result = "AccountNotFound"
                          /\ poolBalances' = poolBalances
       /\ \A p \in Procs :
             (/\ pc[p] = "pmfcDebit"
              /\ pc'[p] # pc[p]
              /\ req'[p].result # "DatabaseError"
              /\ poolBalances[req[p].account] = NoRow) =>
                 /\ req'[p].result = "AccountNotFound"
                 /\ poolBalances' = poolBalances]_vars

\* C17 witness: a debit of an absent account was refused with
\* AccountNotFound, and a credit has then created the account with its
\* amount as balance
C17_Witness ==
    \E p, q \in Procs :
        /\ pc[p] = "idle"
        /\ req[p].route = "storage"
        /\ req[p].result = "AccountNotFound"
        /\ pc[q] = "afterCoup"
        /\ req[q].existing = NoRow
        /\ req[q].type = "nft_sale"
        /\ poolBalances[req[q].account] = PoolRow(req[q].amount, 0, 0)

----------------------------------------------------------------------------
(* Properties of listing deactivation, checked under SpecListing           *)

\* C21: deactivating a listing that is already inactive fails with NotActive
\* on the cancel path and in the settlement commit: a cancel whose listing
\* has become inactive answers NotActive, and a settlement commits only
\* against a listing that is still active.
C21_StrictDeactivate ==
    [][\A p \in Procs :
          /\ (/\ pc[p] = "deactivate"
              /\ req[p].route = "cancel"
              /\ pc'[p] # pc[p]
              /\ ~listings[req[p].listingId].isActive) =>
                 req'[p].result = "NotActive"
          /\ Commits(p) => listings[req[p].listingId].isActive]_vars

----------------------------------------------------------------------------
(* Account binding of the authorizer, checked under SpecAuth               *)

\* C22: authorize succeeds only if the account hash recomputed from the
\* request's signer equals expectedAccountHash; when they differ it fails
\* with AccountMismatch whatever the signature, the expiry and the nonce
\* store are, and changes nothing. In every reachable state of the clock and
\* the nonce store this holds for every request and every expected hash.
C22_AccountBinding ==
    \A r \in SignedRequests, h \in Accounts :
        LET out == verifySignedRequest(r, h, now, usedNonces, nonceTimestamps)
            own == Keccak256(ToLowerCase(r.signer))
        IN  /\ own # h => /\ ~out.valid
                          /\ out.error = "AccountMismatch"
                          /\ out.store = usedNonces
                          /\ out.stamps = nonceTimestamps
            /\ out.valid => own = h

\* C22 witness: a call naming another account than the signer's was refused
\* with AccountMismatch although its nonce was unused and its expiry not
\* past, the store holding nonces of earlier successful calls
C22_Witness ==
    /\ lastAuth.result = "AccountMismatch"
    /\ ~lastAuth.expired
    /\ ~lastAuth.replay
    /\ usedNonces # <<>>
    /\ now > 0

----------------------------------------------------------------------------
(* Exactness of deposits, checked under SpecDecimal                        *)

\* The exact sum of the deposit records of an account, in 1e-8 units
RECURSIVE BigSumAmounts(_)
BigSumAmounts(rows) ==
    IF rows = {} THEN <<>>
    ELSE LET t == CHOOSE x \in rows : TRUE
         IN  BigAdd(BigMulSmall(t.amount, CopiesIn(t, poolTransactions)),
                    BigSumAmounts(rows \ {t}))

DepositedExactly(a) ==
    BigSumAmounts({t \in BagToSet(poolTransactions) :
                      t.accountHash = a /\ t.type = "deposit"})

\* No deposit to account a is between its balance update and its record
DepositsRecorded(a) ==
    \A p \in Procs : pc[p] = "afterCoup" => req[p].account # a

\* C23: with amounts that are integer multiples of 0.00000001, a deposit of
\* X makes the balance read exactly priorBalance + X, and so do repeated
\* deposits of 0.00000001: after any number of deposits the balance of an
\* account is exactly the sum of the amounts deposited to it.
C23_ExactDeposits ==
    \A a \in Accounts :
        (poolBalances[a] # NoRow /\ DepositsRecorded(a))
            => poolBalances[a].balance = DepositedExactly(a)

----------------------------------------------------------------------------
(* Debits of existing accounts, checked under SpecDecimalLedger            *)

\* C18: a debit of amount A against an existing account with balance < A
\* fails with InsufficientBalance and leaves balance, totalDeposited and
\* totalSpent of the account unchanged; a debit with balance >= A succeeds
\* and reduces the balance by exactly A. Balance and amount are compared and
\* subtracted as the decimal values their strings denote. This is about
\* debits whose statements the database executes: a debit it rejects
\* changes no row.
C18_DebitExisting ==
    [][/\ \A p \in Procs :
             (/\ pc[p] = "coupApply"
              /\ ~IsCredit(req[p].type)
              /\ req'[p].result = "DatabaseError") => poolBalances' = poolBalances
       /\ \A p \in Procs :
             (/\ pc[p] = "coupApply"
              /\ pc'[p] # pc[p]
              /\ req'[p].result # "DatabaseError"
              /\ req[p].existing # NoRow
              /\ ~IsCredit(req[p].type)) =>
                 LET r == req[p]
                     row == poolBalances[r.account]
                 IN  IF BigLess(row.balance, r.amount)
                     THEN /\ pc'[p] = "idle"
                          /\ req'[p].result = "InsufficientBalance"
                          /\ poolBalances' = poolBalances
                     ELSE /\ pc'[p] = "afterCoup"
                          /\ poolBalances'[r.account].balance =
                                BigSub(row.balance, r.amount)
                          /\ \A a \in Accounts \ {r.account} :
                                poolBalances'[a] = poolBalances[a]]_vars

----------------------------------------------------------------------------
(* Order and locking of the private buy, checked under SpecSettle          *)

\* The steps of a private buy that come before atomicPoolBuy
PreCommitSteps == {"pbNft", "pbListing", "pbChainCheck", "pbBalance", "pbChainBuy"}

\* The steps of atomicPoolBuy
CommitSteps == {"apbLockBuyer", "apbLockSeller", "apbCommit"}

\* C24: the on-chain purchase of a trade is submitted before any local
\* balance, trade, listing or ownership change of that trade, and the local
\* commit is reached only after the purchase was confirmed. The steps of a
\* private buy up to and including the purchase change no balance, record,
\* trade or owner, and no listing for a trade that goes on; atomicPoolBuy
\* runs only with the hash of a mined purchase; every trades row and every
\* purchase or sale record carries the hash of a mined purchase.
C24_Visible ==
    /\ \A p \in Procs : pc[p] \in CommitSteps => req[p].txHash \in 1..chainTxs
    /\ \A t \in BagToSet(trades) : t.txHash \in 1..chainTxs
    /\ \A t \in BagToSet(poolTransactions) :
          t.type \in {"nft_purchase", "nft_sale"} => t.txHash \in 1..chainTxs

C24_Step ==
    \A p \in Procs :
        (pc[p] \in PreCommitSteps /\ pc'[p] # pc[p]) =>
            /\ UNCHANGED <<poolBalances, poolTransactions, trades, nftOwner, listings>>
            /\ pc'[p] = "apbLockBuyer" => (pc[p] = "pbChainBuy" /\ chainTxs' = chainTxs + 1)

C24_ChainBeforeLocal == []C24_Visible /\ [][C24_Step]_vars

\* C24 witness: a trade is committed with the hash of its mined purchase
C24_Witness ==
    \E p \in Procs, t \in BagToSet(trades) :
        /\ req[p].result = "LocallyCommitted"
        /\ t.listingId = req[p].listingId
        /\ t.txHash \in 1..chainTxs
        /\ poolBalances[t.encryptedSeller] # NoRow

\* The rows a request holds locked
LocksHeld(p) == {r \in DOMAIN rowLock : rowLock[r] = p}

\* C25: no pool-balance row lock is held by a request while its call to the
\* chain is in flight. A request holds a lock only inside
\* createOrUpdatePoolBalance or atomicPoolBuy, after its chain call has
\* returned: a request that is at its chain read or at its purchase holds
\* none, and every step that writes to the chain is taken by a request
\* holding none before and after it.
C25_Visible ==
    \A p \in Procs :
        /\ LocksHeld(p) # {} => pc[p] \in {"coupApply", "apbLockSeller", "apbCommit"}
        /\ pc[p] \in PreCommitSteps => LocksHeld(p) = {}

C25_Step ==
    chainVars' # chainVars =>
        \A p \in Procs : pc'[p] # pc[p] => (LocksHeld(p) = {} /\ rowLock' = rowLock)

C25_NoLockOverChainCall == []C25_Visible /\ [][C25_Step]_vars

\* C25 witness: one request is at its on-chain purchase while another holds
\* the lock of a pool-balance row inside atomicPoolBuy
C25_Witness ==
    \E p, q \in Procs :
        /\ pc[p] = "pbChainBuy"
        /\ pc[q] \in {"apbLockSeller", "apbCommit"}
        /\ LocksHeld(q) # {}
        /\ LocksHeld(p) = {}

----------------------------------------------------------------------------
(* Termination of a private buy, checked under SpecTrade                   *)

\* The responses of a private buy that ends before its purchase is mined;
\* DatabaseError is that of a validation step the database rejected
AbortedResults ==
    {"Unauthorized", "NotActive", "StaleListing", "OwnNft", "AccountNotFound",
     "InsufficientBalance", "ChainTransactionFailed", "DatabaseError"}

InconsistentResults ==
    {"Inconsistent:AccountNotFound", "Inconsistent:InsufficientBalance",
     "Inconsistent:UniqueViolation", "Inconsistent:DatabaseError"}

TerminalResults == {"LocallyCommitted"} \cup AbortedResults \cup InconsistentResults

\* C26: every chain call returning, every private buy ends, in exactly one
\* of LocallyCommitted, Aborted and Inconsistent. Inconsistent is reached
\* only from atomicPoolBuy, after the purchase was mined, and then none of
\* the trade's local changes is applied; from atomicPoolBuy a trade goes
\* nowhere but on or to its end, and a request that has ended issues no
\* chain write: the next step of its slot is a new request.
C26_Step ==
    \A p \in Procs :
        /\ (pc[p] # "idle" /\ pc'[p] = "idle") =>
              /\ req'[p].result \in TerminalResults
              /\ req'[p].result \in InconsistentResults =>
                    /\ pc[p] \in CommitSteps
                    /\ req[p].txHash \in 1..chainTxs
                    /\ UNCHANGED <<dbVars, chainVars>>
        /\ (pc[p] \in CommitSteps /\ pc'[p] # pc[p]) =>
              pc'[p] \in CommitSteps \cup {"idle"}
        /\ (pc[p] = "idle" /\ pc'[p] # "idle") => opsStarted' = opsStarted + 1

C26_Terminates ==
    /\ [][C26_Step]_vars
    /\ \A p \in Procs :
          (pc[p] # "idle") ~> (pc[p] = "idle" /\ req[p].result \in TerminalResults)

\* C26 witness: of two private buys one ended Inconsistent after its mined
\* purchase and the other Aborted
C26_Witness ==
    \E p, q \in Procs :
        /\ pc[p] = "idle" /\ pc[q] = "idle"
        /\ req[p].result \in InconsistentResults
        /\ req[q].result \in AbortedResults
        /\ chainTxs >= 1

----------------------------------------------------------------------------
(* The nonce sweep, checked under SpecAuth                                 *)

NonceAge(k) == now - nonceTimestamps[k]

InNonceSet(store, k) == k[1] \in DOMAIN store /\ k[2] \in store[k[1]]

\* C27: no step removes a nonce record, or an entry of a signer's nonce
\* set, that was consumed 2 x 5 minutes ago or less; a sweep removes every
\* record older than that, with its entry in the signer's set, and keeps
\* the others as they were.
C27_Sweep ==
    [][/\ \A k \in DOMAIN nonceTimestamps :
             k \notin DOMAIN nonceTimestamps' => NonceAge(k) > 2 * 300000
       /\ \A s \in DOMAIN usedNonces : \A n \in usedNonces[s] :
             ~InNonceSet(usedNonces', <<s, n>>) =>
                 /\ <<s, n>> \in DOMAIN nonceTimestamps
                 /\ NonceAge(<<s, n>>) > 2 * 300000
       /\ (now' = now /\ lastAuth' = lastAuth) =>
             \A k \in DOMAIN nonceTimestamps :
                 IF NonceAge(k) > 2 * 300000
                 THEN k \notin DOMAIN nonceTimestamps' /\ ~InNonceSet(usedNonces', k)
                 ELSE /\ k \in DOMAIN nonceTimestamps'
                      /\ nonceTimestamps'[k] = nonceTimestamps[k]
                      /\ InNonceSet(usedNonces', k)]_vars

\* C27 witness: after a sweep, a consumed pair is gone from both maps while
\* a record more than one window old, and not more than two, is still there
C27_Witness ==
    /\ \E k \in authorized :
          k \notin DOMAIN nonceTimestamps /\ ~InNonceSet(usedNonces, k)
    /\ \E k \in DOMAIN nonceTimestamps :
          /\ NonceAge(k) > 300000 /\ NonceAge(k) <= 2 * 300000
          /\ InNonceSet(usedNonces, k)

----------------------------------------------------------------------------
(* Listing prices, checked under SpecListing                               *)

\* C28: no listing route creates a listing whose price is not greater than
\* 0: every row of the listings table has a positive price.
C28_PositivePrice == \A i \in ListingIds : listings[i].price > 0

----------------------------------------------------------------------------
(* Read paths, checked under SpecRead                                      *)

\* C29: no read endpoint answers with an Active listing of an nft that the
\* chain reports as not listed at the time of the read.
C29_ReadsReconciled ==
    [][\A p \in Procs :
          (/\ pc'[p] = "idle"
           /\ pc[p] # "idle" \/ req'[p] # req[p]
           /\ req'[p].route \in {"read", "search"}
           /\ req'[p].result = "Listed")
          => isListed[listings[req'[p].listingId].nftId]]_vars

----------------------------------------------------------------------------
(* Independence of two settlements, checked under SpecPair                 *)

\* The tables as they are, and as they were before the two calls (a
\* settlement changes no listing's nft, seller or price)
PairDb ==
    [poolBalances |-> poolBalances, poolTransactions |-> poolTransactions,
     trades |-> trades, nftOwner |-> nftOwner, listings |-> listings]

PairDb0 ==
    LET ls == [i \in DOMAIN listings |-> [listings[i] EXCEPT !.isActive = TRUE]]
    IN  [poolBalances |-> PairBalances0, poolTransactions |-> EmptyBag,
         trades |-> EmptyBag, nftOwner |-> PairOwner0(ls), listings |-> ls]

PairBothDone == \A p \in Procs : pc[p] = "idle" /\ req[p].route = "privateBuy"

\* C30: two settlements on disjoint accounts and disjoint listings, in any
\* interleaving, leave the balances, pool transactions, trades, listings
\* and ownership that they leave when run one after the other, in either
\* order, and each gets the answer it gets when run alone.
C30_Independent ==
    PairBothDone =>
        LET a == PairParams(PairDb0.listings, "r1")
            b == PairParams(PairDb0.listings, "r2")
        IN  /\ PairDb = Settle(Settle(PairDb0, a), b)
            /\ PairDb = Settle(Settle(PairDb0, b), a)
            /\ req["r1"].result = SettleResult(PairDb0, a)
            /\ req["r2"].result = SettleResult(PairDb0, b)

----------------------------------------------------------------------------
(* What a signed buy request authorizes, checked under SpecSigned          *)

\* C31: a private buy settles only the nft and the price named in its
\* signed payload: the purchase sent to the chain and the local commit are
\* for signedRequest.data.nftId at signedRequest.data.price.
C31_SignedPayloadBinds ==
    [][\A p \in Procs :
          ((pc[p] = "pbChainBuy" /\ chainTxs' # chainTxs) \/ Commits(p))
              => /\ req[p].nft = req[p].signedNft
                 /\ req[p].price = req[p].signedPrice]_vars

----------------------------------------------------------------------------
(* Deposit references, checked under SpecSettle                            *)

\* The deposit records of account a that carry the transaction hash h
DepositRecords(a, h) ==
    {t \in BagToSet(poolTransactions) :
        t.type = "deposit" /\ t.accountHash = a /\ t.txHash = h}

\* C32: a ledger transaction hash increases an account's pool balance at
\* most once: no deposit request raises the balance of an account for a
\* hash that a recorded deposit of that account already carries.
C32_DepositCreditedOnce ==
    [][\A p \in Procs :
          (/\ pc[p] = "coupApply" /\ req[p].route = "deposit"
           /\ BalanceOf(poolBalances', req[p].account)
                 > BalanceOf(poolBalances, req[p].account))
          => DepositRecords(req[p].account, req[p].txHash) = {}]_vars

----------------------------------------------------------------------------
(* Lock order of concurrent settlements, checked under SpecCross           *)

\* C33: concurrent atomicPoolBuy transactions cannot deadlock, the pair in
\* which A buys from B while B buys from A included: no two transactions
\* ever wait for a row lock of each other.
C33_NoWaitCycle ==
    \A p, q \in Procs : p # q => ~(WaitsFor(p, q) /\ WaitsFor(q, p))

----------------------------------------------------------------------------
(* Failed ledger reads, checked under SpecTrade                            *)

\* C34: the on-chain check of a trade sends a listing to deactivation, and
\* aborts the trade as stale, only when the chain reports the nft as not
\* listed; a failed read leaves the listing Active and the trade going.
C34_FailedReadKeepsListing ==
    [][\A p \in Procs :
          (pc[p] = "pbChainCheck" /\ pc'[p] = "deactivate")
              => ~isListed[req[p].nft]]_vars

----------------------------------------------------------------------------
(* Pool-funded purchases, checked under SpecPoolBuy                        *)

\* The pool records of kind type that match the trades row t
TradeRecords(t, type, a) ==
    {d \in BagToSet(poolTransactions) :
        /\ d.type = type /\ d.accountHash = a
        /\ d.amount = t.price /\ d.nftId = t.nftId /\ d.txHash = t.txHash}

\* C35: no trades row of a pool-funded purchase (private buy, pool buy)
\* exists without its nft_purchase debit of the buyer's pool balance and
\* its nft_sale credit of the seller, both of the listing price.
C35_TradeHasDebitAndCredit ==
    \A t \in BagToSet(trades) :
        /\ \E a \in Accounts : TradeRecords(t, "nft_purchase", a) # {}
        /\ TradeRecords(t, "nft_sale", t.encryptedSeller) # {}

----------------------------------------------------------------------------
(* Pool-funded mints on the chain, checked under SpecLedger                *)

\* No pool-funded mint of account a is between its deduction and its mint
MintsSettled(a) ==
    \A p \in Procs : pc[p] \in {"pmMint", "cpmMint"} => req[p].account # a

\* C36: a pool-funded mint is atomic across its on-chain steps: what
\* deductForMint has taken from an account's on-chain pool balance is the
\* price of the nfts minted for it, so a mint that fails after its
\* deduction leaves the balance as it was.
C36_MintAtomicOnChain ==
    \A a \in Accounts :
        MintsSettled(a) => deductedForMint[a] = mintedValue[a]

----------------------------------------------------------------------------
(* Mints from the collection in the database, checked under SpecMint       *)

\* The rows of the collection that mintFromCollection inserted
MintFromCollectionRows ==
    {row \in BagToSet(collectionNfts) : row.mintedBy = "mintFromCollection"}

\* C37: under any interleaving of mintFromCollection and
\* poolMintFromCollection calls, mintedCount never exceeds totalSupply,
\* mintedCount is the number of nfts rows those calls committed, and
\* mintFromCollection never gives one token number to two nfts.
C37_MintsSerialized ==
    /\ mintedCount <= TotalSupply
    /\ mintedCount = BagCardinality(collectionNfts)
    /\ \A row \in MintFromCollectionRows :
          /\ CopiesIn(row, collectionNfts) = 1
          /\ \A other \in MintFromCollectionRows :
                other.tokenId = row.tokenId => other = row

\* Two mintFromCollection calls have committed and the collection is sold
\* out while another mint is waiting to read the collection row.
C37_Witness ==
    /\ Cardinality(MintFromCollectionRows) = 2
    /\ mintedCount = TotalSupply
    /\ \E p \in Procs : pc[p] \in {"mfcLockCollection", "pmfcLockCollection"}

----------------------------------------------------------------------------
(* The VeilXCollection instance, checked under SpecCollection              *)

\* The offers that are active
ActiveOffers ==
    {o \in 1 .. veilxCollection.currentOfferId : veilxCollection.offers[o].isActive}

\* The tokens minted so far
MintedTokens == 1 .. veilxCollection.currentTokenId

\* C38: the escrow for offers is always solvent: after any sequence of
\* mint, listNFT, buyNFT, makeOffer, cancelOffer, acceptOffer and creator
\* withdraw calls the ETH balance of the contract is at least the sum of the
\* amounts of the active offers, so every active offer can be cancelled by
\* its offerer with a full refund.
C38_EscrowSolvent ==
    /\ veilxCollection.balance >= OfferAmounts(ActiveOffers)
    /\ \A o \in ActiveOffers :
          ENABLED cancelOffer(veilxCollection.offers[o].offerer, o)

\* A token changes owner while listed only in a buyNFT step
ListedOwnerChangeIsBuy ==
    \A t \in MintedTokens :
        (veilxCollection.isListed[t]
           /\ veilxCollection'.owners[t] # veilxCollection.owners[t])
        => /\ \E sender \in Wallets, value \in Values : buyNFT(sender, t, value)
           /\ ~veilxCollection'.isListed[t]

\* The listing record of every token is consistent with its owner
ListingConsistent ==
    \A t \in DOMAIN veilxCollection.owners :
        /\ veilxCollection.isListed[t]
              => /\ veilxCollection.sellers[t] = veilxCollection.owners[t]
                 /\ veilxCollection.listingPrices[t] > 0
        /\ ~veilxCollection.isListed[t]
              => /\ veilxCollection.listingPrices[t] = 0
                 /\ veilxCollection.sellers[t] = AddressZero

\* C39: in every reachable state a listed token's recorded seller is its
\* current owner and its listing price is > 0; a token cannot change owner
\* while listed except through buyNFT, which clears the listing in the same
\* step; an unlisted token has price 0 and no seller.
C39_ListingMatchesOwner ==
    []ListingConsistent /\ [][ListedOwnerChangeIsBuy]_vars

\* A token that was bought off its listing and listed again by the buyer,
\* with an active offer on it, next to a token that is not listed.
C39_Witness ==
    /\ veilxCollection.currentTokenId = 2
    /\ veilxCollection.isListed[1]
    /\ veilxCollection.owners[1] = "w2"
    /\ veilxCollection.owners[2] = "w1"
    /\ ~veilxCollection.isListed[2]
    /\ \E o \in ActiveOffers : OfferTokenId(o) = 1

====
